---- MODULE Spec2Model ----
(***************************************************************************)
(* The standalone group coordinator of kafka_go_pulsar                     *)
(* (pkg/kafsar/group_coordinator_standalone.go): JoinGroup, SyncGroup,     *)
(* Heartbeat and LeaveGroup on one group, called concurrently by the       *)
(* client connections.  Every handler is cut into steps at its accesses to *)
(* the shared group (each lock section, each unlocked read or write), so   *)
(* that the interleavings of the goroutines are the behaviours.  A sleep   *)
(* takes no step: time is not modelled, and a wait that is bounded by      *)
(* sessionTimeoutMs may time out whenever its condition is seen false.     *)
(***************************************************************************)
EXTENDS Integers, Sequences, FiniteSets, TLC

\* ------------------------------------------------------------------ bounds
\* generationId is capped: a handler that would raise it more than MaxGen above
\* its first value does not get the groupLock it raises it under (lines 431, 340)
MaxGen == 2
\* number of member ids the server generates (uuid.New())
MaxUuid == 2

\* -------------------------------------------------------- program constants
GroupMinSessionTimeoutMs == 6000
GroupMaxSessionTimeoutMs == 30000
\* the limit on the members of a group in the configuration that has one
MaxMembers == 1

\* ------------------------------------------------------------------ inputs
Procs == {"p1", "p2"}
NoProc == "none"
\* the client id of a connection
ClientId(p) == IF p = "p1" THEN "c" ELSE "0c"
GroupIds == {"", "g"}
SessionTimeouts == {5000, 10000, 40000}
ProtocolTypes == {"consumer"}
Nil == "nil"
\* the assignment of a member that was given none: a nil byte slice
NoAssignment == <<>>
ProtocolLists ==
    { <<[ProtocolName |-> "range", ProtocolMetadata |-> "m1"]>>,
      <<[ProtocolName |-> "roundrobin", ProtocolMetadata |-> "m2"]>> }
\* the protocols a client offers when it runs beside another: always the same list
ProtocolsOf(p) ==
    IF p = "p1" THEN { <<[ProtocolName |-> "range", ProtocolMetadata |-> "m1"]>> }
    ELSE { <<[ProtocolName |-> "roundrobin", ProtocolMetadata |-> "m2"]>> }

EmptyMemberId == <<>>
\* clientId + "-" + uuid.New().String()
NewMemberId(clientId, u) == <<clientId, "-", u>>
HasPrefix(memberId, clientId) ==
    Len(memberId) >= 2 /\ SubSeq(memberId, 1, 2) = <<clientId, "-">>

Empty == "Empty"
PreparingRebalance == "PreparingRebalance"
CompletingRebalance == "CompletingRebalance"
Stable == "Stable"
Dead == "Dead"

VARIABLES
    groupManager,        \* the keys of the registry (g.groupManager)
    groupStatus,
    generationId,
    leader,
    members,             \* memberId -> address of its memberMetadata
    heap,                \* address -> memberMetadata (the structs members points to)
    canRebalance,
    supportedProtocol,
    protocolType,
    sessionTimeoutMs,
    groupLock,           \* the goroutine holding group.groupLock, or NoProc
    groupNewMemberLock,  \* the goroutine holding group.groupNewMemberLock
    memberRLock,         \* goroutines holding groupMemberLock.RLock while blocked
    nextUuid,
    kafsarConfig,        \* the configuration the coordinator was made with
    phase,               \* what the protocol has each client do next
    genCap,              \* the value generationId is capped at
    observe,             \* requests are recorded with the group as they find it
    panicked,            \* a goroutine panicked: the process is gone
    pc,                  \* where each connection's handler stands
    loc,                 \* the locals of each running handler
    resp,                \* the response the step returns to a connection, if any
    client,              \* what each client keeps of its last successful JoinGroup
    userInfoManager,     \* the Broker's maps: address -> userInfo
    memberManager,       \* address -> MemberInfo
    producerManager,     \* address -> the topic of its producer
    readerManager,       \* partitionedTopic+clientId -> ReaderMetadata
    pulsarClientManage,  \* the keys partitionedTopic+clientId that have a client
    topicGroupManager,   \* partitionedTopic -> groupId
    offsetManager,       \* what the offset manager has stored
    partitionedTopic,    \* group.partitionedTopic of the one group
    closed,              \* the readers, clients and producers that were closed
    disconnecting,       \* the addresses whose Disconnect has sent its LeaveGroup
    answer,              \* what the last call of the Broker answered
    producing,           \* the Produce call that has not returned, if any
    batch,               \* len(batch) of that call
    count,               \* the counter its callbacks add to
    callbacks,           \* where the callback of each record of the batch stands
    tenantGroups,        \* the registry by its keys username+groupId
    access               \* the last lookup in tenantGroups

vars == <<groupManager, groupStatus, generationId, leader, members, heap,
          canRebalance, supportedProtocol, protocolType, sessionTimeoutMs,
          groupLock, groupNewMemberLock, memberRLock, nextUuid, kafsarConfig, phase,
          genCap, observe,
          panicked,
          pc, loc, resp, client,
          userInfoManager, memberManager, producerManager, readerManager,
          pulsarClientManage, topicGroupManager, offsetManager, partitionedTopic,
          closed, disconnecting, answer, producing, batch, count, callbacks,
          tenantGroups, access>>

\* line 82: g.kafsarConfig.MaxConsumersPerGroup; 0: no limit on the members of
\* a group
MaxConsumersPerGroup == kafsarConfig.MaxConsumersPerGroup

groupVars == <<groupStatus, generationId, leader, members, heap, canRebalance,
               supportedProtocol, protocolType, sessionTimeoutMs>>
lockVars == <<groupLock, groupNewMemberLock, memberRLock>>
\* the registry as the tenants' calls key it, followed for the lookups only
tenantVars == <<tenantGroups, access>>
\* what the Broker keeps beside the coordinator: no handler of the coordinator
\* reads or writes it
brokerVars == <<userInfoManager, memberManager, producerManager, readerManager,
                pulsarClientManage, topicGroupManager, offsetManager,
                partitionedTopic, closed, disconnecting, answer>>
\* the locals of a Produce call, shared with the callbacks of its records
produceVars == <<producing, batch, count, callbacks>>

\* ---------------------------------------------------------------- helpers
Range(f) == { f[x] : x \in DOMAIN f }
Min(S) == CHOOSE x \in S : \A y \in S : x <= y
Max(S) == CHOOSE x \in S : \A y \in S : x >= y

\* what a call was given, the status the group had and whether the caller was
\* a member when it was made, and the statuses the call has read since
NoRequest ==
    [groupId |-> "", memberId |-> EmptyMemberId, timeoutMs |-> 0, status |-> "",
     member |-> FALSE, seen |-> {}, protocols |-> <<>>, rejoin |-> FALSE,
     generationId |-> 0, leader |-> EmptyMemberId, members |-> {}, list |-> {},
     protocolType |-> "", mismatch |-> FALSE]

NoLoc ==
    [op |-> "none", memberId |-> EmptyMemberId, isNewMember |-> FALSE,
     protocolType |-> "", protocols |-> <<>>, branch |-> "", viaNew |-> FALSE,
     waitForStatus |-> "", gen |-> 0, cur |-> 0, err |-> FALSE,
     groupAssignments |-> <<>>, leaving |-> <<>>, n |-> 0, members |-> {},
     uuid |-> 0, arrival |-> "", assignment |-> NoAssignment, request |-> NoRequest]

NoResp ==
    [op |-> "none", to |-> NoProc, ErrorCode |-> "NONE", MemberId |-> EmptyMemberId,
     GenerationId |-> 0, LeaderId |-> EmptyMemberId, ProtocolName |-> "",
     ProtocolType |-> "", Members |-> {}, MemberAssignment |-> NoAssignment,
     arrival |-> "", request |-> NoRequest]

NoClient ==
    [memberId |-> EmptyMemberId, generationId |-> 0, leaderId |-> EmptyMemberId,
     members |-> {}]

\* a new memberMetadata: the zero values of joinGenerationId, syncGenerationId
\* and assignment (clientId and protocols are stored and never read)
NewMember(memberId, meta, ptype) ==
    [memberId |-> memberId, metadata |-> meta, protocolType |-> ptype,
     joinGenerationId |-> 0, syncGenerationId |-> 0, assignment |-> NoAssignment]

\* the address new(memberMetadata) gets: the lowest free one
Alloc(h) == Min({ a \in 1..(Cardinality(DOMAIN h) + 1) : a \notin DOMAIN h })

\* structs nothing points to any more are dropped
Collect(h, mem, l) ==
    [ a \in { b \in DOMAIN h : b \in Range(mem) \/ \E q \in Procs : l[q].cur = b }
        |-> h[a] ]

\* protocolMap[name] of addMemberAndRebalance: nil when the member did not offer it
ProtocolMap(protocols, name) ==
    IF \E i \in 1..Len(protocols) : protocols[i].ProtocolName = name
    THEN protocols[Max({ i \in 1..Len(protocols) :
                           protocols[i].ProtocolName = name })].ProtocolMetadata
    ELSE Nil

len(mem) == Cardinality(DOMAIN mem)

\* a handler returns r to its connection
Return(p, r) ==
    /\ resp = NoResp
    /\ pc' = [pc EXCEPT ![p] = "idle"]
    /\ loc' = [loc EXCEPT ![p] = NoLoc]
    /\ resp' = [r EXCEPT !.to = p]
    /\ UNCHANGED <<kafsarConfig, phase, brokerVars, tenantVars, produceVars>>

\* a goroutine panics: the process ends, and with it every handler
Panic ==
    /\ resp = NoResp
    /\ panicked' = TRUE
    /\ pc' = [q \in Procs |-> "gone"]
    /\ resp' = NoResp
    /\ UNCHANGED <<kafsarConfig, phase, brokerVars, tenantVars, produceVars>>

\* a step inside a handler: nothing is returned
Goto(p, label) ==
    /\ resp = NoResp
    /\ pc' = [pc EXCEPT ![p] = label]
    /\ resp' = NoResp
    /\ UNCHANGED <<kafsarConfig, phase, brokerVars, tenantVars, produceVars>>

\* ------------------------------------------------------------------- Init
\* part_000 lines 99-106: the maps of the Broker are empty; no call was answered
NoAnswer ==
    [op |-> "none", addr |-> NoProc, ErrorCode |-> "NONE", Offset |-> 0,
     bound |-> FALSE]

\* no tenant has made a call
NoAccess == [op |-> "none", username |-> "", groupId |-> "", found |-> FALSE,
             owner |-> <<"", "">>]

\* the configuration without a limit on the members of a group
DefaultConfig ==
    /\ kafsarConfig = [MaxConsumersPerGroup |-> 0]
    /\ phase = [p \in Procs |-> "any"]

\* the configuration that limits the members of a group
LimitedConfig ==
    /\ kafsarConfig = [MaxConsumersPerGroup |-> MaxMembers]
    /\ phase = [p \in Procs |-> "any"]

\* no Produce call is in progress
NoProduce == [addr |-> NoProc, kafkaTopic |-> "", pulsarTopic |-> ""]

NoProducing ==
    /\ producing = NoProduce
    /\ batch = 0
    /\ count = 0
    /\ callbacks = <<>>

NoTenantGroups ==
    /\ tenantGroups = <<>>
    /\ access = NoAccess

NewKafsar ==
    /\ userInfoManager = <<>>
    /\ memberManager = <<>>
    /\ producerManager = <<>>
    /\ readerManager = <<>>
    /\ pulsarClientManage = {}
    /\ topicGroupManager = <<>>
    /\ offsetManager = <<>>
    /\ partitionedTopic = <<>>
    /\ closed = {}
    /\ disconnecting = {}
    /\ answer = NoAnswer
    /\ NoProducing

\* lines 38-42: the registry is empty.  The fields of the one group the model
\* follows have the values line 59-67 will find unset.
EmptyRegistry ==
    /\ groupManager = {}
    /\ groupStatus = Empty
    /\ generationId = 0
    /\ leader = EmptyMemberId
    /\ members = <<>>
    /\ heap = <<>>
    /\ canRebalance = TRUE
    /\ supportedProtocol = ""
    /\ protocolType = ""
    /\ sessionTimeoutMs = 0
    /\ groupLock = NoProc
    /\ groupNewMemberLock = NoProc
    /\ memberRLock = {}
    /\ genCap = MaxGen
    /\ panicked = FALSE
    /\ pc = [p \in Procs |-> "idle"]
    /\ loc = [p \in Procs |-> NoLoc]
    /\ resp = NoResp

NewGroupCoordinatorStandalone ==
    /\ EmptyRegistry
    /\ nextUuid = 0
    /\ client = [p \in Procs |-> NoClient]

Init ==
    /\ NewGroupCoordinatorStandalone /\ NoTenantGroups /\ NewKafsar /\ DefaultConfig
    /\ observe = FALSE

\* the same, with the requests recorded
InitObserved ==
    /\ NewGroupCoordinatorStandalone /\ NoTenantGroups /\ NewKafsar /\ DefaultConfig
    /\ observe = TRUE

\* -------------------------------------------------------------- JoinGroup
\* a parameter check that forgets the session timeout
joinGroupParamsCheckNoTimeout(groupId, timeoutMs) ==
    IF groupId = "" THEN "INVALID_GROUP_ID" ELSE "NONE"

\* lines 508-520
joinGroupParamsCheck(groupId, timeoutMs) ==
    IF groupId = "" THEN "INVALID_GROUP_ID"
    ELSE IF timeoutMs < GroupMinSessionTimeoutMs \/ timeoutMs > GroupMaxSessionTimeoutMs
         THEN "INVALID_SESSION_TIMEOUT"
         ELSE "NONE"

\* a failed wait answered as a rebalance in progress
JoinWaitFailedCodeRebalance == "REBALANCE_IN_PROGRESS"

\* lines 108-111, 117-120 (and 138-141, 163-166, 185-188, 208-211): the error
\* code of a JoinGroup whose wait failed
JoinWaitFailedCode == "COORDINATOR_LOAD_IN_PROGRESS"

JoinError(memberId, code) ==
    [NoResp EXCEPT !.op = "join", !.MemberId = memberId, !.ErrorCode = code]

\* the JoinGroup request; of a call by the leader and only member of a Stable
\* group (rejoin) also the generation the call finds
JoinRequest(groupId, memberId, ptype, timeoutMs, protocols) ==
    LET rejoin == /\ observe
                  /\ groupId \in groupManager
                  /\ groupStatus = Stable
                  /\ DOMAIN members = {memberId}
                  /\ leader = memberId
    IN [NoRequest EXCEPT !.groupId = groupId, !.memberId = memberId,
                         !.timeoutMs = timeoutMs, !.protocols = protocols,
                         !.protocolType = ptype,
                         !.status = IF ~observe THEN ""
                                    ELSE IF groupId \in groupManager
                                         THEN groupStatus ELSE Empty,
                         !.mismatch = /\ observe
                                      /\ groupId \in groupManager
                                      /\ protocolType # ptype,
                         !.rejoin = rejoin,
                         !.member = /\ observe
                                    /\ groupId \in groupManager
                                    /\ memberId \in DOMAIN members,
                         !.generationId = IF rejoin THEN generationId ELSE 0]

\* the error response of a JoinGroup that got past the parameter check
JoinFailure(p, code) ==
    [JoinError(loc[p].memberId, code) EXCEPT !.arrival = loc[p].arrival,
                                             !.request = loc[p].request]

\* a JoinGroup that arrives before the first member's initial join delay is over
Arrival ==
    IF groupManager = {} THEN "first"
    ELSE IF /\ generationId = 0
            /\ \E q \in Procs : /\ loc[q].arrival = "first"
                                /\ pc[q] \in {"J_proto1", "J_proto2", "J_cap", "J_st1",
                                              "J_st2", "J_st3", "J_st4", "J_admit",
                                              "AN_lock", "AM_status", "AM_vote",
                                              "AM_insert", "DR_lock", "DR_sleep"}
         THEN "delay"
         ELSE "late"

\* the checks with joinGroupProtocolCheck left out
AfterCheckNoProtocol(done, gptype, ptype, protocols) ==
    IF done < 3 /\ MaxConsumersPerGroup > 0 THEN "J_cap" ELSE "J_st1"

\* Where HandleJoinGroup goes on after line 70 and after each check.  A check whose
\* outcome does not depend on the status it reads takes no step of its own:
\* the protocol type test of line 525 when the types agree (group.protocolType is
\* never written after the group is created), the tests of lines 535-540 when the
\* protocol type and the protocol list are not empty, the size test of line 82
\* when no limit is configured.
AfterCheck(done, gptype, ptype, protocols) ==
    IF done < 1 /\ gptype # ptype THEN "J_proto1"
    ELSE IF done < 2 /\ (ptype = "" \/ Len(protocols) = 0) THEN "J_proto2"
    ELSE IF done < 3 /\ MaxConsumersPerGroup > 0 THEN "J_cap"
    ELSE "J_st1"

\* lines 44-70: the parameter check and the lookup-or-create under g.mutex
HandleJoinGroup(p, groupId, memberId, ptype, timeoutMs, protocols) ==
    /\ pc[p] = "idle"
    /\ IF joinGroupParamsCheck(groupId, timeoutMs) # "NONE"
       THEN /\ Return(p, [JoinError(memberId, joinGroupParamsCheck(groupId, timeoutMs))
                            EXCEPT !.request =
                                      JoinRequest(groupId, memberId, ptype,
                                                  timeoutMs, protocols)])
            /\ UNCHANGED <<genCap, observe, groupManager, groupVars, lockVars, nextUuid, panicked,
                           client>>
       ELSE /\ memberId = EmptyMemberId => nextUuid < MaxUuid
            /\ nextUuid' = IF memberId = EmptyMemberId THEN nextUuid + 1 ELSE nextUuid
            /\ groupManager' = groupManager \cup {groupId}
            /\ IF groupId \in groupManager
               THEN UNCHANGED <<groupStatus, protocolType, members, canRebalance,
                                sessionTimeoutMs>>
               ELSE /\ groupStatus' = Empty
                    /\ protocolType' = ptype
                    /\ members' = <<>>
                    /\ canRebalance' = TRUE
                    /\ sessionTimeoutMs' = timeoutMs
            /\ loc' = [loc EXCEPT ![p] =
                          [NoLoc EXCEPT !.op = "join", !.memberId = memberId,
                                        !.isNewMember = (memberId = EmptyMemberId),
                                        !.protocolType = ptype,
                                        !.protocols = protocols,
                                        !.uuid = IF memberId = EmptyMemberId
                                                 THEN nextUuid + 1 ELSE 0,
                                        !.arrival = Arrival,
                                        !.request =
                                           JoinRequest(groupId, memberId, ptype,
                                                       timeoutMs, protocols)]]
            /\ Goto(p, AfterCheck(0, protocolType', ptype, protocols))
            /\ UNCHANGED <<genCap, observe, generationId, leader, heap, supportedProtocol, lockVars,
                           panicked, client>>

\* lines 522-543 (the status is read once for each of the two tests) and
\* lines 81-89
joinGroupChecks(p) ==
    /\ pc[p] \in {"J_proto1", "J_proto2", "J_cap"}
    /\ LET failed ==
               CASE pc[p] = "J_proto1" ->
                        groupStatus # Empty /\ protocolType # loc[p].protocolType
                 [] pc[p] = "J_proto2" ->
                        /\ groupStatus = Empty
                        /\ (loc[p].protocolType = "" \/ Len(loc[p].protocols) = 0)
                 [] OTHER -> len(members) >= MaxConsumersPerGroup
           code == IF pc[p] = "J_cap" THEN "GROUP_MAX_SIZE_REACHED"
                   ELSE "INCONSISTENT_GROUP_PROTOCOL"
           done == CASE pc[p] = "J_proto1" -> 1 [] pc[p] = "J_proto2" -> 2
                     [] OTHER -> 3
       IN IF failed
          THEN Return(p, JoinFailure(p, code))
          ELSE /\ Goto(p, AfterCheck(done, protocolType, loc[p].protocolType,
                                     loc[p].protocols))
               /\ UNCHANGED loc
    /\ UNCHANGED <<genCap, observe, groupManager, groupVars, lockVars, nextUuid, panicked, client>>

\* lines 91-97, 99, 133, 179: getGroupStatus is called anew for every comparison
\* (Dead is a status no code sets); line 224 when none of them matched
JoinStatus(p) ==
    /\ pc[p] \in {"J_st1", "J_st2", "J_st3", "J_st4"}
    /\ LET want == CASE pc[p] = "J_st1" -> PreparingRebalance
                     [] pc[p] = "J_st2" -> CompletingRebalance
                     [] pc[p] = "J_st3" -> Empty
                     [] OTHER -> Stable
           branch == CASE pc[p] = "J_st1" -> "Preparing"
                       [] pc[p] = "J_st2" -> "Completing"
                       [] OTHER -> "EmptyOrStable"
           next == CASE pc[p] = "J_st1" -> "J_st2"
                     [] pc[p] = "J_st2" -> "J_st3"
                     [] OTHER -> "J_st4"
       IN IF pc[p] = "J_st1" /\ groupStatus = Dead
          THEN Return(p, JoinFailure(p, "UNKNOWN_MEMBER_ID"))
          ELSE IF groupStatus = want
               THEN /\ Goto(p, "J_admit")
                    /\ loc' = [loc EXCEPT ![p].branch = branch]
               ELSE IF pc[p] = "J_st4"
                    THEN Return(p, JoinFailure(p, "UNKNOWN_SERVER_ERROR"))
                    ELSE Goto(p, next) /\ UNCHANGED loc
    /\ UNCHANGED <<genCap, observe, groupManager, groupVars, lockVars, nextUuid, panicked, client>>

\* lines 72-99 and on: HandleJoinGroup between the lookup and the admission
JoinProceed(p) ==
    IF pc[p] \in {"J_proto1", "J_proto2", "J_cap"}
    THEN joinGroupChecks(p)
    ELSE JoinStatus(p)

checkMemberExist(mem, memberId) == memberId \in DOMAIN mem

\* matchProtocols and supportsProtocols return true whatever they are given
matchProtocols(groupProtocols, memberProtocols) == TRUE

\* lines 100, 134-155, 180-201: what the branch does before it waits
JoinAdmission(p) ==
    /\ pc[p] = "J_admit"
    /\ IF loc[p].isNewMember \/ ~checkMemberExist(members, loc[p].memberId)
       THEN Goto(p, "AN_lock")
       ELSE CASE loc[p].branch = "Preparing" -> Goto(p, "AJ_read")
              [] loc[p].branch = "Completing" ->
                    IF ~matchProtocols(<<>>, loc[p].protocols)
                    THEN Goto(p, "DR_lock") ELSE Goto(p, "GL_read")
              [] OTHER ->
                    IF leader = loc[p].memberId
                       \/ ~matchProtocols(<<>>, loc[p].protocols)
                    THEN Goto(p, "DR_lock") ELSE Goto(p, "AJ_read")
    /\ UNCHANGED <<genCap, observe, groupManager, groupVars, lockVars, nextUuid, panicked, loc,
                   client>>

\* -------------------------------------------------- admission of a new member
Put(f, k, v) == [ x \in DOMAIN f \cup {k} |-> IF x = k THEN v ELSE f[x] ]
Drop(f, k) == [ x \in DOMAIN f \ {k} |-> f[x] ]

\* doRebalance has returned err to HandleJoinGroup, through addNewMemberAndReBalance
\* (which unlocks groupNewMemberLock, lines 665 and 672) or updateMemberAndRebalance
AfterRebalance(p, err) ==
    /\ groupNewMemberLock' = IF loc[p].viaNew THEN NoProc ELSE groupNewMemberLock
    /\ IF err
       THEN Return(p, JoinFailure(p, JoinWaitFailedCode))
       ELSE /\ Goto(p, IF loc[p].branch = "Completing" THEN "GL_read" ELSE "AJ_read")
            /\ loc' = [loc EXCEPT ![p].viaNew = FALSE]
            /\ TRUE

\* lines 658-659: groupNewMemberLock is taken, then the group is looked at
addNewMemberAndReBalance(p) ==
    /\ pc[p] = "AN_lock"
    /\ groupNewMemberLock = NoProc
    /\ groupNewMemberLock' = p
    /\ IF len(members) > 0 /\ groupStatus # Stable
       THEN /\ Goto(p, "AR_wait")
            /\ loc' = [loc EXCEPT ![p].viaNew = TRUE, ![p].waitForStatus = Stable]
       ELSE /\ Goto(p, "AM_status")
            /\ loc' = [loc EXCEPT ![p].viaNew = TRUE]
    /\ UNCHANGED <<genCap, observe, groupManager, groupVars, groupLock, memberRLock, nextUuid,
                   panicked, client>>

\* lines 456-467, one turn of the loop that ends it: the status waited for is
\* there or the group is empty, or else the wait times out.  Called from line 661
\* (for Stable) and from line 445 (for CompletingRebalance).
awaitingRebalance(p) ==
    /\ pc[p] = "AR_wait"
    /\ LET err == ~(groupStatus = loc[p].waitForStatus \/ len(members) = 0)
       IN IF loc[p].waitForStatus = Stable /\ ~err
          THEN /\ Goto(p, "AM_status")
               /\ UNCHANGED <<loc, groupNewMemberLock>>
          ELSE AfterRebalance(p, err)
    /\ UNCHANGED <<genCap, observe, groupManager, groupVars, groupLock, memberRLock, nextUuid,
                   panicked, client>>

\* lines 363-372: the member id, and the first member of an Empty group votes
\* (vote takes groupLock; protocols[0] of an empty list panics)
addMemberAndRebalance(p) ==
    /\ pc[p] \in {"AM_status", "AM_vote"}
    /\ IF pc[p] = "AM_status"
       THEN /\ loc' = [loc EXCEPT ![p].memberId =
                          IF loc[p].memberId = EmptyMemberId
                          THEN NewMemberId(ClientId(p), loc[p].uuid)
                          ELSE loc[p].memberId]
            /\ Goto(p, IF groupStatus = Empty THEN "AM_vote" ELSE "AM_insert")
            /\ UNCHANGED <<supportedProtocol, panicked>>
       ELSE /\ groupLock = NoProc
            /\ IF Len(loc[p].protocols) = 0
               THEN Panic /\ UNCHANGED supportedProtocol
               ELSE /\ supportedProtocol' = loc[p].protocols[1].ProtocolName
                    /\ Goto(p, "AM_insert")
                    /\ UNCHANGED panicked
            /\ UNCHANGED loc
    /\ UNCHANGED <<genCap, observe, groupManager, groupStatus, generationId, leader, members, heap,
                   canRebalance, protocolType, sessionTimeoutMs, lockVars, nextUuid, client>>

\* lines 373-381: the new memberMetadata goes into the map, under groupMemberLock
InsertMember(p) ==
    /\ pc[p] = "AM_insert"
    /\ memberRLock = {}
    /\ LET a == Alloc(heap)
           m == NewMember(loc[p].memberId,
                          ProtocolMap(loc[p].protocols, supportedProtocol),
                          loc[p].protocolType)
       IN /\ members' = Put(members, loc[p].memberId, a)
          /\ heap' = Collect(Put(heap, a, m), members', loc)
    /\ Goto(p, "DR_lock")
    /\ UNCHANGED <<genCap, observe, groupManager, groupStatus, generationId, leader, canRebalance,
                   supportedProtocol, protocolType, sessionTimeoutMs, lockVars,
                   nextUuid, panicked, loc, client>>

\* a generation counter that counts down
BumpGenerationDown(g) == g - 1

\* ----------------------------------------------------------- doRebalance
\* line 438
BumpGeneration(g) == g + 1

\* lines 430-447.  groupLock is held from line 431 to line 441, over the sleep.
doRebalance(p) ==
    /\ pc[p] \in {"DR_lock", "DR_sleep", "DR_bump"}
    /\ CASE pc[p] = "DR_lock" ->
              /\ groupLock = NoProc
              /\ generationId < genCap
              /\ groupStatus' = PreparingRebalance
              /\ IF canRebalance
                 THEN /\ canRebalance' = FALSE
                      /\ groupLock' = p
                      /\ Goto(p, "DR_sleep")
                      /\ UNCHANGED loc
                 ELSE /\ Goto(p, "AR_wait")
                      /\ loc' = [loc EXCEPT ![p].waitForStatus = CompletingRebalance]
                      /\ UNCHANGED <<canRebalance, groupLock>>
              /\ UNCHANGED <<generationId, groupNewMemberLock>>
         [] pc[p] = "DR_sleep" ->
              /\ groupStatus' = CompletingRebalance
              /\ Goto(p, "DR_bump")
              /\ UNCHANGED <<generationId, canRebalance, groupLock,
                             groupNewMemberLock, loc>>
         [] OTHER ->
              /\ generationId' = BumpGeneration(generationId)
              /\ canRebalance' = TRUE
              /\ groupLock' = NoProc
              /\ AfterRebalance(p, FALSE)
              /\ UNCHANGED groupStatus
    /\ UNCHANGED <<genCap, observe, groupManager, leader, members, heap, supportedProtocol,
                   protocolType, sessionTimeoutMs, memberRLock, nextUuid, panicked,
                   client>>

\* ------------------------------------------------------- getLeaderMembers
MemberList(mem, h) ==
    { [MemberId |-> h[mem[k]].memberId, Metadata |-> h[mem[k]].metadata] :
        k \in DOMAIN mem }

\* lines 577-587: getMemberLeader, setMemberLeader and isMemberLeader each take
\* groupMemberLock on their own
getLeaderMembers(p) ==
    /\ pc[p] \in {"GL_read", "GL_set", "GL_list"}
    /\ CASE pc[p] = "GL_read" ->
              /\ Goto(p, IF leader = EmptyMemberId THEN "GL_set" ELSE "GL_list")
              /\ UNCHANGED <<leader, loc>>
         [] pc[p] = "GL_set" ->
              /\ memberRLock = {}
              /\ leader' = loc[p].memberId
              /\ Goto(p, "GL_list")
              /\ UNCHANGED loc
         [] OTHER ->
              /\ loc' = [loc EXCEPT ![p].members =
                            IF leader = loc[p].memberId
                            THEN MemberList(members, heap) ELSE {}]
              /\ Goto(p, IF loc[p].branch = "Completing" THEN "AJ_read" ELSE "J_ret")
              /\ UNCHANGED leader
    /\ UNCHANGED <<genCap, observe, groupManager, groupStatus, generationId, members, heap,
                   canRebalance, supportedProtocol, protocolType, sessionTimeoutMs,
                   lockVars, nextUuid, panicked, client>>

\* ------------------------------------------------------------ awaitingJoin
\* lines 618-629
checkJoinMemberGenerationId(mem, h, g) ==
    \A k \in DOMAIN mem : h[mem[k]].joinGenerationId = g

\* lines 597-606: the generation is read under groupLock, the member is looked up,
\* and its joinGenerationId is set under groupMemberLock
awaitingJoinEnter(p) ==
    /\ pc[p] \in {"AJ_read", "AJ_write"}
    /\ IF pc[p] = "AJ_read"
       THEN /\ groupLock = NoProc
            /\ loc' = [loc EXCEPT ![p].gen = generationId,
                                  ![p].cur = IF loc[p].memberId \in DOMAIN members
                                             THEN members[loc[p].memberId] ELSE 0]
            /\ Goto(p, IF loc[p].memberId \in DOMAIN members
                       THEN "AJ_write" ELSE "AJ_fail")
            /\ UNCHANGED heap
       ELSE /\ memberRLock = {}
            /\ heap' = [heap EXCEPT ![loc[p].cur].joinGenerationId = loc[p].gen]
            /\ Goto(p, "AJ_check")
            /\ UNCHANGED loc
    /\ UNCHANGED <<genCap, observe, groupManager, groupStatus, generationId, leader, members,
                   canRebalance, supportedProtocol, protocolType, sessionTimeoutMs,
                   lockVars, nextUuid, panicked, client>>

\* lines 607-614: the barrier is checked with groupMemberLock read-held and
\* groupLock read-taken for every member; a goroutine that finds groupLock
\* taken waits with groupMemberLock read-held.  When the barrier does not hold
\* the loop goes round again or the wait has timed out.
awaitingJoinCheck(p) ==
    /\ pc[p] \in {"AJ_check", "AJ_blocked"}
    /\ IF groupLock # NoProc /\ len(members) > 0
       THEN /\ pc[p] = "AJ_check"
            /\ memberRLock' = memberRLock \cup {p}
            /\ Goto(p, "AJ_blocked")
       ELSE /\ memberRLock' = memberRLock \ {p}
            /\ IF checkJoinMemberGenerationId(members, heap, generationId)
               THEN Goto(p, "AJ_set")
               ELSE \E next \in {"AJ_read", "AJ_fail"} : Goto(p, next)
    /\ UNCHANGED <<genCap, observe, groupManager, groupVars, groupLock, groupNewMemberLock, nextUuid,
                   panicked, loc, client>>

\* line 608
awaitingJoinDone(p) ==
    /\ pc[p] = "AJ_set"
    /\ groupStatus' = CompletingRebalance
    /\ Goto(p, IF loc[p].branch = "Completing" THEN "J_ret" ELSE "GL_read")
    /\ UNCHANGED <<genCap, observe, groupManager, generationId, leader, members, heap, canRebalance,
                   supportedProtocol, protocolType, sessionTimeoutMs, lockVars,
                   nextUuid, panicked, loc, client>>

\* lines 111-119, 158-166, 203-211: awaitingJoin failed; a member that came with an
\* empty member id is deleted
JoinFailed(p) ==
    /\ pc[p] = "AJ_fail"
    /\ loc[p].isNewMember => memberRLock = {}
    /\ members' = IF loc[p].isNewMember THEN Drop(members, loc[p].memberId)
                  ELSE members
    /\ Return(p, JoinFailure(p, JoinWaitFailedCode))
    /\ heap' = Collect(heap, members', loc')
    /\ UNCHANGED <<genCap, observe, groupManager, groupStatus, generationId, leader, canRebalance,
                   supportedProtocol, protocolType, sessionTimeoutMs, lockVars,
                   nextUuid, panicked, client>>

\* lines 122-130, 168-176, 214-222
JoinResponse(p) ==
    [NoResp EXCEPT !.op = "join", !.ErrorCode = "NONE",
                   !.GenerationId = generationId,
                   !.ProtocolType = protocolType,
                   !.ProtocolName = supportedProtocol,
                   !.LeaderId = leader,
                   !.MemberId = loc[p].memberId,
                   !.Members = loc[p].members,
                   !.arrival = loc[p].arrival,
                   !.request = loc[p].request]

JoinReturn(p) ==
    /\ pc[p] = "J_ret"
    /\ Return(p, JoinResponse(p))
    /\ client' = [client EXCEPT ![p] =
                     [memberId |-> loc[p].memberId, generationId |-> generationId,
                      leaderId |-> leader,
                      members |-> { m.MemberId : m \in loc[p].members }]]
    /\ heap' = Collect(heap, members, loc')
    /\ UNCHANGED <<genCap, observe, groupManager, groupStatus, generationId, leader, members,
                   canRebalance, supportedProtocol, protocolType, sessionTimeoutMs,
                   lockVars, nextUuid, panicked>>

\* a parameter check that forgets the member id
syncGroupParamsCheckNoMember(groupId, memberId) ==
    IF groupId = "" THEN "INVALID_GROUP_ID" ELSE "NONE"

\* -------------------------------------------------------------- SyncGroup
syncGroupParamsCheck(groupId, memberId) ==
    IF groupId = "" THEN "INVALID_GROUP_ID"
    ELSE IF memberId = EmptyMemberId THEN "MEMBER_ID_REQUIRED"
         ELSE "NONE"

SyncResponse(code, assignment, request) ==
    [NoResp EXCEPT !.op = "sync", !.ErrorCode = code, !.MemberAssignment = assignment,
                   !.request = request]

\* the SyncGroup request, with the group as the call finds it
SyncRequest(groupId, memberId) ==
    [NoRequest EXCEPT !.groupId = groupId, !.memberId = memberId,
                      !.status = IF groupId \in groupManager THEN groupStatus ELSE "",
                      !.member = (groupId \in groupManager
                                  /\ memberId \in DOMAIN members)]

\* lines 230-252: the checks, and curMember := group.members[memberId]
HandleSyncGroup(p, groupId, memberId, generation, groupAssignments) ==
    /\ pc[p] = "idle"
    /\ IF syncGroupParamsCheck(groupId, memberId) # "NONE"
       THEN Return(p, SyncResponse(syncGroupParamsCheck(groupId, memberId),
                                   NoAssignment, SyncRequest(groupId, memberId)))
       ELSE IF groupId \notin groupManager
            THEN Return(p, SyncResponse("INVALID_GROUP_ID", NoAssignment,
                                        SyncRequest(groupId, memberId)))
            ELSE IF memberId \notin DOMAIN members
                 THEN Return(p, SyncResponse("UNKNOWN_MEMBER_ID", NoAssignment,
                                             SyncRequest(groupId, memberId)))
                 ELSE /\ loc' = [loc EXCEPT ![p] =
                                   [NoLoc EXCEPT !.op = "sync", !.memberId = memberId,
                                                 !.request =
                                                    SyncRequest(groupId, memberId),
                                                 !.gen = generation,
                                                 !.cur = members[memberId],
                                                 !.groupAssignments = groupAssignments]]
                      /\ Goto(p, "S_st1")
                      /\ TRUE
    /\ UNCHANGED <<genCap, observe, groupManager, groupVars, lockVars, nextUuid, panicked, client>>

\* lines 255-266, 268, 304-312: one getGroupStatus for every comparison
SyncStatus(p) ==
    /\ pc[p] \in {"S_st1", "S_st2", "S_st3", "S_st4"}
    /\ CASE pc[p] = "S_st1" ->
              IF groupStatus = Empty \/ groupStatus = Dead
              THEN Return(p, SyncResponse("UNKNOWN_MEMBER_ID", NoAssignment,
                                          loc[p].request))
              ELSE Goto(p, "S_st2") /\ UNCHANGED loc
         [] pc[p] = "S_st2" ->
              IF groupStatus = PreparingRebalance
              THEN Return(p, SyncResponse("REBALANCE_IN_PROGRESS", NoAssignment,
                                          loc[p].request))
              ELSE Goto(p, "S_st3") /\ UNCHANGED loc
         [] pc[p] = "S_st3" ->
              /\ Goto(p, IF groupStatus = CompletingRebalance
                         THEN "S_store" ELSE "S_st4")
              /\ UNCHANGED loc
         [] OTHER ->
              IF groupStatus = Stable
              THEN Return(p, SyncResponse("NONE", heap[loc[p].cur].assignment,
                                          loc[p].request))
              ELSE Return(p, SyncResponse("UNKNOWN_SERVER_ERROR", NoAssignment,
                                          loc[p].request))
    /\ heap' = Collect(heap, members, loc')
    /\ UNCHANGED <<genCap, observe, groupManager, groupStatus, generationId, leader, members,
                   canRebalance, supportedProtocol, protocolType, sessionTimeoutMs,
                   lockVars, nextUuid, panicked, client>>

\* lines 270-275: the leader's assignments are written into the members, without
\* a lock; an entry for a member that is not in the map is a nil dereference
StoreAssignments(h, mem, asg) ==
    [ a \in DOMAIN h |->
        IF \E k \in DOMAIN asg : k \in DOMAIN mem /\ mem[k] = a
        THEN [h[a] EXCEPT !.assignment =
                 asg[CHOOSE k \in DOMAIN asg : k \in DOMAIN mem /\ mem[k] = a]]
        ELSE h[a] ]

SyncStore(p) ==
    /\ pc[p] = "S_store"
    /\ IF leader = loc[p].memberId
       THEN IF \E k \in DOMAIN loc[p].groupAssignments : k \notin DOMAIN members
            THEN Panic /\ UNCHANGED heap
            ELSE /\ heap' = StoreAssignments(heap, members, loc[p].groupAssignments)
                 /\ Goto(p, "S_mark")
                 /\ UNCHANGED panicked
       ELSE Goto(p, "S_mark") /\ UNCHANGED <<heap, panicked>>
    /\ UNCHANGED <<genCap, observe, groupManager, groupStatus, generationId, leader, members,
                   canRebalance, supportedProtocol, protocolType, sessionTimeoutMs,
                   lockVars, nextUuid, loc, client>>

\* lines 276-278
SyncMark(p) ==
    /\ pc[p] = "S_mark"
    /\ memberRLock = {}
    /\ heap' = [heap EXCEPT ![loc[p].cur].syncGenerationId =
                               heap[loc[p].cur].joinGenerationId]
    /\ Goto(p, "S_wait")
    /\ UNCHANGED <<genCap, observe, groupManager, groupStatus, generationId, leader, members,
                   canRebalance, supportedProtocol, protocolType, sessionTimeoutMs,
                   lockVars, nextUuid, panicked, loc, client>>

\* a sync barrier that always holds
checkSyncAlways(mem, h) == TRUE

\* lines 644-655
checkSyncMemberGenerationId(mem, h) ==
    \A k \in DOMAIN mem : h[mem[k]].syncGenerationId = h[mem[k]].joinGenerationId

\* lines 631-642, one turn of the loop that ends it: the barrier holds, or else
\* the wait times out
awaitingSync(p) ==
    /\ pc[p] = "S_wait"
    /\ loc' = [loc EXCEPT ![p].err = ~checkSyncMemberGenerationId(members, heap)]
    /\ Goto(p, "S_stable1")
    /\ UNCHANGED <<genCap, observe, groupManager, groupVars, lockVars, nextUuid, panicked,
                   client>>

\* a leader that leaves the status as it finds it
LeaderStatusUnchanged(status, isLeader, err) == status

\* line 280 and line 293: what the leader does to the status after its wait
LeaderStatusAfterWait(status, isLeader, err) == IF isLeader THEN Stable ELSE status

\* lines 280-300
SyncFinish(p) ==
    /\ pc[p] \in {"S_stable1", "S_read", "S_stable2"}
    /\ CASE pc[p] = "S_stable1" ->
              /\ groupStatus' = LeaderStatusAfterWait(groupStatus,
                                    leader = loc[p].memberId, loc[p].err)
              /\ Goto(p, "S_read")
              /\ UNCHANGED loc
         [] pc[p] = "S_read" ->
              /\ IF loc[p].err
                 THEN Return(p, SyncResponse("REBALANCE_IN_PROGRESS",
                                             heap[loc[p].cur].assignment,
                                             loc[p].request))
                 ELSE /\ loc' = [loc EXCEPT ![p].assignment =
                                               heap[loc[p].cur].assignment]
                      /\ Goto(p, "S_stable2")
                      /\ TRUE
              /\ UNCHANGED groupStatus
         [] OTHER ->
              /\ groupStatus' = LeaderStatusAfterWait(groupStatus,
                                    leader = loc[p].memberId, FALSE)
              /\ Return(p, SyncResponse("NONE", loc[p].assignment, loc[p].request))
    /\ heap' = Collect(heap, members, loc')
    /\ UNCHANGED <<genCap, observe, groupManager, generationId, leader, members, canRebalance,
                   supportedProtocol, protocolType, sessionTimeoutMs, lockVars,
                   nextUuid, panicked, client>>

\* -------------------------------------------------------------- Heartbeat
HeartbeatResponse(code, request) ==
    [NoResp EXCEPT !.op = "heartbeat", !.ErrorCode = code, !.request = request]

\* the Heartbeat request, with the group as the call finds it
HeartbeatRequest(groupId, memberId) ==
    [NoRequest EXCEPT !.groupId = groupId, !.memberId = memberId,
                      !.status = IF groupId \in groupManager THEN groupStatus ELSE "",
                      !.member = (groupId \in groupManager
                                  /\ memberId \in DOMAIN members)]

\* lines 389-416
HandleHeartBeat(p, groupId, memberId) ==
    /\ pc[p] = "idle"
    /\ IF groupId = ""
       THEN Return(p, HeartbeatResponse("INVALID_GROUP_ID",
                                        HeartbeatRequest(groupId, memberId)))
       ELSE IF groupId \notin groupManager \/ memberId \notin DOMAIN members
            THEN Return(p, HeartbeatResponse("REBALANCE_IN_PROGRESS",
                                             HeartbeatRequest(groupId, memberId)))
            ELSE /\ Goto(p, "H_st1")
                 /\ loc' = [loc EXCEPT ![p] =
                              [NoLoc EXCEPT !.op = "heartbeat", !.memberId = memberId,
                                            !.request =
                                               HeartbeatRequest(groupId, memberId)]]
                 /\ TRUE
    /\ UNCHANGED <<genCap, observe, groupManager, groupVars, lockVars, nextUuid, panicked, client>>

\* line 417: getGroupStatus for PreparingRebalance, then again for
\* CompletingRebalance and for Dead (a status no code sets)
HeartBeatStatus(p) ==
    /\ pc[p] \in {"H_st1", "H_st2"}
    /\ LET request == [loc[p].request EXCEPT !.seen = @ \cup {groupStatus}]
       IN IF pc[p] = "H_st1"
          THEN IF groupStatus = PreparingRebalance
               THEN Return(p, HeartbeatResponse("REBALANCE_IN_PROGRESS", request))
               ELSE /\ Goto(p, "H_st2")
                    /\ loc' = [loc EXCEPT ![p].request = request]
          ELSE IF groupStatus = CompletingRebalance \/ groupStatus = Dead
               THEN Return(p, HeartbeatResponse("REBALANCE_IN_PROGRESS", request))
               ELSE Return(p, HeartbeatResponse("NONE", request))
    /\ UNCHANGED <<genCap, observe, groupManager, groupVars, lockVars, nextUuid, panicked, client>>

\* ------------------------------------------------------------- LeaveGroup
LeaveResponse(code, list, request) ==
    [NoResp EXCEPT !.op = "leave", !.ErrorCode = code,
                   !.Members = { list[i] : i \in 1..Len(list) },
                   !.request = request]

\* the LeaveGroup request: the member ids it lists, and the group as the call
\* finds it: its status and generation, its leader and its members
LeaveRequest(groupId, list) ==
    IF observe /\ groupId \in groupManager
    THEN [NoRequest EXCEPT !.groupId = groupId,
                           !.list = { list[i] : i \in 1..Len(list) },
                           !.status = groupStatus,
                           !.generationId = generationId, !.leader = leader,
                           !.members = DOMAIN members]
    ELSE [NoRequest EXCEPT !.groupId = groupId]

\* lines 315-332
HandleLeaveGroup(p, groupId, list) ==
    /\ pc[p] = "idle"
    /\ IF groupId = "" \/ groupId \notin groupManager
       THEN /\ Return(p, LeaveResponse("INVALID_GROUP_ID", <<>>,
                                       LeaveRequest(groupId, list)))
       ELSE /\ loc' = [loc EXCEPT ![p] =
                         [NoLoc EXCEPT !.op = "leave", !.leaving = list,
                                       !.request = LeaveRequest(groupId, list),
                                       !.members = { list[i] : i \in 1..Len(list) }]]
            /\ Goto(p, IF Len(list) = 0 THEN "L_bump" ELSE "L_leader")
            /\ TRUE
    /\ UNCHANGED <<genCap, observe, groupManager, groupVars, lockVars, nextUuid, panicked, client>>

\* lines 333-339, for one member of the list: the leader is cleared, then the
\* member is deleted
LeaveMember(p) ==
    /\ pc[p] \in {"L_leader", "L_del"}
    /\ memberRLock = {}
    /\ IF pc[p] = "L_leader"
       THEN /\ leader' = IF Head(loc[p].leaving) = leader THEN EmptyMemberId
                         ELSE leader
            /\ Goto(p, "L_del")
            /\ UNCHANGED <<members, heap, loc>>
       ELSE /\ members' = Drop(members, Head(loc[p].leaving))
            /\ loc' = [loc EXCEPT ![p].leaving = Tail(loc[p].leaving)]
            /\ heap' = Collect(heap, members', loc')
            /\ Goto(p, IF Len(loc[p].leaving) = 1 THEN "L_bump" ELSE "L_leader")
            /\ UNCHANGED leader
    /\ UNCHANGED <<genCap, observe, groupManager, groupStatus, generationId, canRebalance,
                   supportedProtocol, protocolType, sessionTimeoutMs, lockVars,
                   nextUuid, panicked, client>>

\* a LeaveGroup that leaves every group PreparingRebalance
StatusAfterLeavePreparing(n) == PreparingRebalance

\* lines 343-348
StatusAfterLeave(n) == IF n = 0 THEN Empty ELSE PreparingRebalance

\* lines 340-349: the generation is raised under groupLock; len(group.members)
\* is read without a lock, and the status is set after it
LeaveFinish(p) ==
    /\ pc[p] \in {"L_bump", "L_set"}
    /\ IF pc[p] = "L_bump"
       THEN /\ groupLock = NoProc
            /\ generationId < genCap
            /\ generationId' = BumpGeneration(generationId)
            /\ loc' = [loc EXCEPT ![p].n = len(members)]
            /\ Goto(p, "L_set")
            /\ UNCHANGED <<groupStatus>>
       ELSE /\ groupStatus' = StatusAfterLeave(loc[p].n)
            /\ Return(p, [NoResp EXCEPT !.op = "leave", !.ErrorCode = "NONE",
                                        !.Members = loc[p].members,
                                        !.request = loc[p].request])
            /\ UNCHANGED generationId
    /\ UNCHANGED <<genCap, observe, groupManager, leader, members, heap, canRebalance,
                   supportedProtocol, protocolType, sessionTimeoutMs, lockVars,
                   nextUuid, panicked, client>>

\* ------------------------------------------------------------ the clients
\* the assignment the leader computes for member m in generation g
Assignment(g, m) == <<"a", g, m>>

\* the leader assigns to the members its JoinGroup response listed; a member
\* that is no leader sends no assignments
AssignmentsOf(p) ==
    { [ m \in client[p].members |-> Assignment(client[p].generationId, m) ] }

\* a client leaves with its own member id, or lists every member id it knows of
LeaveLists(p) ==
    { l \in { <<client[p].memberId>> } \cup
            { <<client[p].memberId, client[q].memberId>> : q \in Procs \ {p} } :
        \A i \in 1..Len(l) : l[i] # EmptyMemberId }

\* the JoinGroup requests of a client that offers one of the protocol lists: of
\* the requests that fail the parameter check one for every way of failing it
JoinRequests(p, lists, groups) ==
    { r \in [groupId : groups, memberId : {EmptyMemberId, client[p].memberId},
             protocolType : ProtocolTypes, timeoutMs : SessionTimeouts,
             protocols : lists] :
        joinGroupParamsCheck(r.groupId, r.timeoutMs) # "NONE" =>
            /\ r.memberId = client[p].memberId
            /\ r.protocolType = CHOOSE t \in ProtocolTypes : TRUE
            /\ r.protocols = CHOOSE l \in lists : TRUE
            /\ r.groupId = "" => r.timeoutMs = Min(SessionTimeouts) }

\* the response goes out to the connection
Deliver ==
    /\ resp # NoResp
    /\ resp' = NoResp
    /\ UNCHANGED <<genCap, observe, groupManager, groupVars, lockVars, nextUuid, panicked, pc, loc,
                   client>>
    /\ UNCHANGED <<kafsarConfig, brokerVars, tenantVars, produceVars>>

\* to a client that may send any request next
Respond == Deliver /\ UNCHANGED phase

\* a step of the connection p, whose client offers one of the protocol lists
Step(p, lists, groups) ==
    \/ \E r \in JoinRequests(p, lists, groups) :
          HandleJoinGroup(p, r.groupId, r.memberId, r.protocolType, r.timeoutMs,
                          r.protocols)
    \/ JoinProceed(p)
    \/ JoinAdmission(p)
    \/ addNewMemberAndReBalance(p)
    \/ awaitingRebalance(p)
    \/ addMemberAndRebalance(p)
    \/ InsertMember(p)
    \/ doRebalance(p)
    \/ getLeaderMembers(p)
    \/ awaitingJoinEnter(p)
    \/ awaitingJoinCheck(p)
    \/ awaitingJoinDone(p)
    \/ JoinFailed(p)
    \/ JoinReturn(p)
    \/ \E groupId \in groups, memberId \in {EmptyMemberId, client[p].memberId},
          groupAssignments \in AssignmentsOf(p) :
          HandleSyncGroup(p, groupId, memberId, client[p].generationId,
                          groupAssignments)
    \/ SyncStatus(p)
    \/ SyncStore(p)
    \/ SyncMark(p)
    \/ awaitingSync(p)
    \/ SyncFinish(p)
    \/ \E groupId \in groups, memberId \in {EmptyMemberId, client[p].memberId} :
          HandleHeartBeat(p, groupId, memberId)
    \/ HeartBeatStatus(p)
    \/ \E groupId \in groups, list \in LeaveLists(p) :
          HandleLeaveGroup(p, groupId, list)
    \/ LeaveMember(p)
    \/ LeaveFinish(p)

\* the connections run concurrently
Next ==
    \/ Respond
    \/ \E p \in Procs : Step(p, ProtocolsOf(p), GroupIds)

Spec == Init /\ [][Next]_vars

\* the same connections on a coordinator whose configuration limits the
\* members of a group
InitLimited ==
    /\ NewGroupCoordinatorStandalone /\ NoTenantGroups /\ NewKafsar /\ LimitedConfig
    /\ observe = FALSE

SpecLimited == InitLimited /\ [][Next]_vars

\* one connection alone, whose client offers any of the protocol lists: every
\* handler runs to its end before the next one is called
NextSolo ==
    \/ Respond
    \/ Step("p1", ProtocolLists, GroupIds)

SpecSolo == InitObserved /\ [][NextSolo]_vars

\* the one connection also sends JoinGroup requests with a protocol type that
\* is empty or not the group's, and with no protocols
OtherProtocolTypes == {"", "connect"}

JoinOddly(p) ==
    \E memberId \in {EmptyMemberId, client[p].memberId},
       ptype \in ProtocolTypes \cup OtherProtocolTypes,
       protocols \in ProtocolLists \cup {<<>>} :
       /\ ptype \in OtherProtocolTypes \/ protocols = <<>>
       /\ HandleJoinGroup(p, "g", memberId, ptype, 10000, protocols)

NextProtocols ==
    \/ Respond
    \/ Step("p1", ProtocolLists, GroupIds)
    \/ JoinOddly("p1")

SpecProtocols == InitObserved /\ [][NextProtocols]_vars

\* what the two clients hold after both have joined and synced
StableClients ==
    [p \in Procs |->
        IF p = "p1"
        THEN [memberId |-> NewMemberId("c", 1), generationId |-> 2,
              leaderId |-> NewMemberId("c", 1),
              members |-> {NewMemberId("c", 1), NewMemberId("0c", 2)}]
        ELSE [memberId |-> NewMemberId("0c", 2), generationId |-> 2,
              leaderId |-> NewMemberId("c", 1), members |-> {}]]

\* the group after both clients have joined and synced: the two members are in
\* generation 2, the group is Stable, nothing is in flight.  Spec reaches this
\* state; from it the generation may be raised MaxGen times again.
StableGroup ==
    /\ groupManager = {"g"}
    /\ groupStatus = Stable
    /\ generationId = 2
    /\ leader = NewMemberId("c", 1)
    /\ members = (NewMemberId("c", 1) :> 1) @@ (NewMemberId("0c", 2) :> 2)
    /\ heap = << [memberId |-> NewMemberId("c", 1), metadata |-> "m1",
                  protocolType |-> "consumer", joinGenerationId |-> 2,
                  syncGenerationId |-> 2,
                  assignment |-> Assignment(2, NewMemberId("c", 1))],
                 [memberId |-> NewMemberId("0c", 2), metadata |-> Nil,
                  protocolType |-> "consumer", joinGenerationId |-> 2,
                  syncGenerationId |-> 2,
                  assignment |-> Assignment(2, NewMemberId("0c", 2))] >>
    /\ canRebalance = TRUE
    /\ supportedProtocol = "range"
    /\ protocolType = "consumer"
    /\ sessionTimeoutMs = 10000
    /\ groupLock = NoProc
    /\ groupNewMemberLock = NoProc
    /\ memberRLock = {}
    /\ nextUuid = 2
    /\ genCap = 2 + MaxGen
    /\ panicked = FALSE
    /\ pc = [p \in Procs |-> "idle"]
    /\ loc = [p \in Procs |-> NoLoc]
    /\ resp = NoResp
    /\ client = StableClients

InitStable ==
    StableGroup /\ NoTenantGroups /\ NewKafsar /\ DefaultConfig /\ observe = FALSE

NextStable ==
    \/ Respond
    \/ \E p \in Procs : Step(p, ProtocolsOf(p), {"g"})

SpecStable == InitStable /\ [][NextStable]_vars

\* the two clients of the Stable group call one after the other: a call is made
\* only when no other call is in progress; the requests are recorded
\* the coordinator was started again, and its registry is empty, while the two
\* clients still hold what the process before answered them
Restarted ==
    /\ EmptyRegistry
    /\ nextUuid = 2
    /\ client = StableClients

InitSeq ==
    /\ StableGroup \/ Restarted
    /\ NoTenantGroups /\ NewKafsar /\ DefaultConfig /\ observe = TRUE

NextSeq ==
    \/ Respond
    \/ \E p \in Procs :
          /\ \A q \in Procs \ {p} : pc[q] = "idle"
          /\ Step(p, ProtocolsOf(p), GroupIds)

SpecSeq == InitSeq /\ [][NextSeq]_vars

\* the connections run concurrently and every handler keeps running: the Go
\* scheduler runs every runnable goroutine, a sync.Mutex is handed to a
\* goroutine that keeps waiting for it, and the loop of awaitingJoin ends when
\* the session timeout has passed
Proceed(p) == pc[p] # "idle" /\ Step(p, ProtocolsOf(p), GroupIds)

JoinWaitEnds(p) == awaitingJoinCheck(p) /\ pc'[p] # "AJ_read"

Fairness ==
    /\ WF_vars(Respond)
    /\ \A p \in Procs : SF_vars(Proceed(p)) /\ SF_vars(JoinWaitEnds(p))

SpecLive == Init /\ [][Next]_vars /\ Fairness

\* ------------------------------------------- clients that follow the protocol
\* what a client does after a response: SyncGroup after a JoinGroup that
\* succeeded, heartbeats after a SyncGroup that succeeded, JoinGroup again after
\* any other answer; a client that has left stays away
NextPhase(r, was) ==
    CASE r.op = "join" -> IF r.ErrorCode = "NONE" THEN "sync" ELSE "join"
      [] r.op = "sync" -> IF r.ErrorCode = "NONE" THEN "member" ELSE "join"
      [] r.op = "heartbeat" -> IF r.ErrorCode = "NONE" THEN "member" ELSE "join"
      [] r.op = "leave" -> "left"
      [] OTHER -> was

RespondFollowed ==
    /\ Deliver
    /\ phase' = [phase EXCEPT ![resp.to] = NextPhase(resp, @)]

\* the request the protocol has the client send: with the member id, the
\* generation and the member list of its last successful JoinGroup
FollowCall(p) ==
    \/ /\ phase[p] = "join"
       /\ \E protocols \in ProtocolsOf(p) :
             HandleJoinGroup(p, "g", client[p].memberId, "consumer", 10000, protocols)
    \/ /\ phase[p] = "sync"
       /\ \E groupAssignments \in AssignmentsOf(p) :
             HandleSyncGroup(p, "g", client[p].memberId, client[p].generationId,
                             groupAssignments)
    \/ /\ phase[p] = "member"
       /\ HandleHeartBeat(p, "g", client[p].memberId)
    \/ /\ phase[p] = "member"
       /\ HandleLeaveGroup(p, "g", <<client[p].memberId>>)

\* the steps of the handlers when no wait times out: a wait ends only when
\* what it waits for holds, so that awaitingJoin does not fail
FollowStep(p) ==
    \/ FollowCall(p)
    \/ JoinProceed(p)
    \/ JoinAdmission(p)
    \/ addNewMemberAndReBalance(p)
    \/ awaitingRebalance(p) /\ pc'[p] # "idle"
    \/ addMemberAndRebalance(p)
    \/ InsertMember(p)
    \/ doRebalance(p)
    \/ getLeaderMembers(p)
    \/ awaitingJoinEnter(p)
    \/ awaitingJoinCheck(p) /\ pc'[p] # "AJ_fail"
    \/ awaitingJoinDone(p)
    \/ JoinReturn(p)
    \/ SyncStatus(p)
    \/ SyncStore(p)
    \/ SyncMark(p)
    \/ awaitingSync(p) /\ ~loc'[p].err
    \/ SyncFinish(p)
    \/ HeartBeatStatus(p)
    \/ LeaveMember(p)
    \/ LeaveFinish(p)

NextFollow ==
    \/ RespondFollowed
    \/ \E p \in Procs : FollowStep(p)

\* the clients join a coordinator that has no group, or are the two members of
\* the Stable group
InitFollow ==
    /\ \/ NewGroupCoordinatorStandalone /\ phase = [p \in Procs |-> "join"]
       \/ StableGroup /\ phase = [p \in Procs |-> "member"]
    /\ kafsarConfig = [MaxConsumersPerGroup |-> 0]
    /\ NoTenantGroups /\ NewKafsar /\ observe = FALSE

\* every client sends the request the protocol has it send, every handler
\* keeps running, and a lock is handed to a goroutine that keeps waiting for it
FollowFairness ==
    /\ WF_vars(RespondFollowed)
    /\ \A p \in Procs : SF_vars(FollowStep(p))

SpecFollow == InitFollow /\ [][NextFollow]_vars /\ FollowFairness

\* -------------------------------------------------------------- the Broker
\* the tenant the connections authenticate as, the topics and the partitions
\* their requests name
Username == "u"
KafkaTopics == {"t"}
PartitionIds == {1, 10}

\* fmt.Sprintf("%d", n)
Digit(n) ==
    CASE n = 0 -> "0" [] n = 1 -> "1" [] n = 2 -> "2" [] n = 3 -> "3" [] n = 4 -> "4"
      [] n = 5 -> "5" [] n = 6 -> "6" [] n = 7 -> "7" [] n = 8 -> "8" [] n = 9 -> "9"

RECURSIVE Itoa(_)
Itoa(n) == IF n < 10 THEN Digit(n) ELSE Itoa(n \div 10) \o Digit(n % 10)

\* the hook server.PulsarTopic of the application: the tenant, then the topic
PulsarTopic(username, kafkaTopic) == username \o "/" \o kafkaTopic

\* part_000 lines 694-700: pulsarTopic + "-partition-%d"
PartitionedTopicOf(username, kafkaTopic, partitionId) ==
    PulsarTopic(username, kafkaTopic) \o "-partition-" \o Itoa(partitionId)

\* the key of readerManager and pulsarClientManage: partitionedTopic+clientId
ReaderKey(topic, clientId) == topic \o clientId

MapPut(f, k, v) == [x \in DOMAIN f \cup {k} |-> IF x = k THEN v ELSE f[x]]
MapDelete(f, K) == [x \in DOMAIN f \ K |-> f[x]]

\* the Broker handles one request at a time
NoCall ==
    /\ \A q \in Procs : pc[q] = "idle"
    /\ resp = NoResp
    /\ disconnecting = {}

handlerVars ==
    <<kafsarConfig, phase, genCap, observe, groupManager, groupVars, lockVars, nextUuid, panicked, pc,
      loc, client>>
coordinatorVars == <<handlerVars, tenantVars, produceVars>>

Answer(op, p, code) == [NoAnswer EXCEPT !.op = op, !.addr = p, !.ErrorCode = code]

\* lines 743-760, the authentication hook accepting the client
SaslAuth(p) ==
    /\ NoCall
    /\ userInfoManager' =
          IF p \in DOMAIN userInfoManager THEN userInfoManager
          ELSE MapPut(userInfoManager, p,
                      [username |-> Username, clientId |-> ClientId(p)])
    /\ answer' = Answer("auth", p, "NONE")
    /\ UNCHANGED <<coordinatorVars, resp, memberManager, producerManager,
                   readerManager, pulsarClientManage, topicGroupManager,
                   offsetManager, partitionedTopic, closed, disconnecting>>

\* lines 326-350: the producer of the connection is created once, for the topic
\* of the Produce that finds none
getProducer(p, topic) ==
    /\ NoCall
    /\ p \in DOMAIN userInfoManager
    /\ IF p \in DOMAIN producerManager
       THEN UNCHANGED <<producerManager, closed>>
       ELSE /\ producerManager' =
                  MapPut(producerManager, p,
                         PulsarTopic(userInfoManager[p].username, topic))
            /\ closed' = closed \ {<<"producer", p>>}
    /\ answer' = Answer("produce", p, "NONE")
    /\ UNCHANGED <<coordinatorVars, resp, userInfoManager, memberManager,
                   readerManager, pulsarClientManage, topicGroupManager,
                   offsetManager, partitionedTopic, disconnecting>>

\* lines 353-363 of GroupJoin and the like of the other handlers: the
\* connection has not authenticated
UserNotFound(op, p) ==
    /\ NoCall
    /\ p \notin DOMAIN userInfoManager
    /\ answer' = Answer(op, p, "UNKNOWN_SERVER_ERROR")
    /\ UNCHANGED <<coordinatorVars, resp, userInfoManager, memberManager,
                   producerManager, readerManager, pulsarClientManage,
                   topicGroupManager, offsetManager, partitionedTopic, closed,
                   disconnecting>>

\* lines 352-366: GroupJoin calls HandleJoinGroup
GroupJoin(p) ==
    \/ UserNotFound("join", p)
    \/ /\ NoCall
       /\ p \in DOMAIN userInfoManager
       /\ \E r \in JoinRequests(p, ProtocolsOf(p), {"g"}) :
             HandleJoinGroup(p, r.groupId, r.memberId, r.protocolType, r.timeoutMs,
                             r.protocols)

\* lines 367-384: HandleJoinGroup has returned (it returns no error value): the
\* member of the response is bound to the address
GroupJoinReturn(p) ==
    /\ resp.to = p
    /\ resp.op = "join"
    /\ memberManager' =
          MapPut(memberManager, p,
                 [memberId |-> resp.MemberId, groupId |-> resp.request.groupId,
                  clientId |-> ClientId(p)])
    /\ answer' = [Answer("join", p, resp.ErrorCode)
                    EXCEPT !.bound = p \in DOMAIN memberManager]
    /\ resp' = NoResp
    /\ UNCHANGED <<coordinatorVars, userInfoManager, producerManager,
                   readerManager, pulsarClientManage, topicGroupManager,
                   offsetManager, partitionedTopic, closed, disconnecting>>

\* lines 433-454
GroupSync(p) ==
    \/ UserNotFound("sync", p)
    \/ /\ NoCall
       /\ p \in DOMAIN userInfoManager
       /\ \E groupAssignments \in AssignmentsOf(p) :
             HandleSyncGroup(p, "g", client[p].memberId, client[p].generationId,
                             groupAssignments)

GroupSyncReturn(p) ==
    /\ resp.to = p
    /\ resp.op = "sync"
    /\ answer' = Answer("sync", p, resp.ErrorCode)
    /\ resp' = NoResp
    /\ UNCHANGED <<coordinatorVars, userInfoManager, memberManager,
                   producerManager, readerManager, pulsarClientManage,
                   topicGroupManager, offsetManager, partitionedTopic, closed,
                   disconnecting>>

\* lines 412-429 and 884-900: for every topic of group.partitionedTopic the
\* reader and the client under topic+clientId are closed and deleted; GroupLeave
\* also deletes the topic from topicGroupManager
ReaderKeys(clientId) ==
    { ReaderKey(partitionedTopic[i], clientId) : i \in DOMAIN partitionedTopic }

CloseReaders(clientId, leaving) ==
    /\ readerManager' = MapDelete(readerManager, ReaderKeys(clientId))
    /\ pulsarClientManage' = pulsarClientManage \ ReaderKeys(clientId)
    /\ closed' = closed
                 \cup { <<"reader", k>> : k \in ReaderKeys(clientId) \cap DOMAIN readerManager }
                 \cup { <<"client", k>> : k \in ReaderKeys(clientId) \cap pulsarClientManage }
    /\ topicGroupManager' =
          IF leaving
          THEN MapDelete(topicGroupManager,
                         { partitionedTopic[i] : i \in DOMAIN partitionedTopic })
          ELSE topicGroupManager

\* lines 867-877
HeartBeat(p) ==
    \/ UserNotFound("heartbeat", p)
    \/ /\ NoCall
       /\ p \in DOMAIN userInfoManager
       /\ \E groupId \in {"g"}, memberId \in {EmptyMemberId, client[p].memberId} :
             HandleHeartBeat(p, groupId, memberId)

\* lines 878-902: GetGroup finds the group when the registry has its key
HeartBeatReturn(p) ==
    /\ resp.to = p
    /\ resp.op = "heartbeat"
    /\ IF resp.ErrorCode = "REBALANCE_IN_PROGRESS"
          /\ resp.request.groupId \in groupManager
       THEN CloseReaders(ClientId(p), FALSE)
       ELSE UNCHANGED <<readerManager, pulsarClientManage, closed,
                        topicGroupManager>>
    /\ answer' = Answer("heartbeat", p, resp.ErrorCode)
    /\ resp' = NoResp
    /\ UNCHANGED <<coordinatorVars, userInfoManager, memberManager,
                   producerManager, offsetManager, partitionedTopic,
                   disconnecting>>

\* lines 387-398: the LeaveGroup request of a client
GroupLeave(p) ==
    \/ UserNotFound("leave", p)
    \/ /\ NoCall
       /\ p \in DOMAIN userInfoManager
       /\ \E list \in LeaveLists(p) : HandleLeaveGroup(p, "g", list)

\* lines 399-430: HandleLeaveGroup has returned; and lines 814-817 when the
\* request was the one Disconnect made
GroupLeaveReturn(p) ==
    /\ resp.to = p
    /\ resp.op = "leave"
    /\ LET clientId == IF p \in disconnecting THEN memberManager[p].clientId
                       ELSE ClientId(p)
           found == resp.request.groupId \in groupManager
       IN /\ IF found
             THEN CloseReaders(clientId, TRUE)
             ELSE UNCHANGED <<readerManager, pulsarClientManage, closed,
                              topicGroupManager>>
          /\ answer' = [Answer(IF p \in disconnecting THEN "disconnect" ELSE "leave",
                               p,
                               IF found THEN resp.ErrorCode
                               ELSE "UNKNOWN_SERVER_ERROR")
                          EXCEPT !.bound = p \in disconnecting]
    /\ userInfoManager' = IF p \in disconnecting
                          THEN MapDelete(userInfoManager, {p})
                          ELSE userInfoManager
    /\ disconnecting' = disconnecting \ {p}
    /\ resp' = NoResp
    /\ UNCHANGED <<coordinatorVars, memberManager, producerManager, offsetManager,
                   partitionedTopic>>

\* lines 778-798: the producer of the address is closed and deleted; an address
\* no member is bound to is done
Disconnect(p) ==
    /\ NoCall
    /\ producerManager' = MapDelete(producerManager, {p})
    /\ closed' = closed \cup (IF p \in DOMAIN producerManager
                              THEN {<<"producer", p>>} ELSE {})
    /\ IF p \notin DOMAIN memberManager
       THEN /\ userInfoManager' = MapDelete(userInfoManager, {p})
            /\ answer' = Answer("disconnect", p, "NONE")
            /\ UNCHANGED disconnecting
       ELSE /\ disconnecting' = {p}
            /\ UNCHANGED <<userInfoManager, answer>>
    /\ UNCHANGED <<coordinatorVars, resp, memberManager, readerManager,
                   pulsarClientManage, topicGroupManager, offsetManager,
                   partitionedTopic>>

\* lines 799-817: the LeaveGroup for the bound member, which GroupLeave refuses
\* when the address has no userInfo
DisconnectLeave(p) ==
    /\ p \in disconnecting
    /\ pc[p] = "idle"
    /\ resp = NoResp
    /\ IF p \notin DOMAIN userInfoManager
       THEN /\ disconnecting' = {}
            /\ answer' = [Answer("disconnect", p, "UNKNOWN_SERVER_ERROR")
                            EXCEPT !.bound = TRUE]
            /\ UNCHANGED <<coordinatorVars, resp, userInfoManager, memberManager,
                           producerManager, readerManager, pulsarClientManage,
                           topicGroupManager, offsetManager, partitionedTopic,
                           closed>>
       ELSE HandleLeaveGroup(p, memberManager[p].groupId,
                             <<memberManager[p].memberId>>)

\* ---------------------------------------------------- readers and offsets
\* the backend log of a partition holds the messages 1..MaxLog
MaxLog == 3

\* the offset of a backend message: strictly increasing in the message id (the
\* entry index of the continuous mode)
convOffset(messageId) == messageId

\* constant.UnknownOffset, and pulsar.EarliestMessageID()
UnknownOffset == -1
EarliestMessageID == 0

MessageIdPair(messageId) == [MessageId |-> messageId, Offset |-> convOffset(messageId)]
NoPair == [MessageId |-> EarliestMessageID, Offset |-> UnknownOffset]

\* the offset manager keeps the last pair committed for a tenant, topic, group
\* and partition
OffsetKey(username, kafkaTopic, groupId, partitionId) ==
    <<username, kafkaTopic, groupId, partitionId>>

AcquireOffset(username, kafkaTopic, groupId, partitionId) ==
    IF OffsetKey(username, kafkaTopic, groupId, partitionId) \in DOMAIN offsetManager
    THEN offsetManager[OffsetKey(username, kafkaTopic, groupId, partitionId)]
    ELSE NoPair

\* lines 620-692.  The reader is created for the topic and the client of the
\* request (lines 658, 853) and starts behind the message AcquireOffset gave;
\* it is created before GetGroup is asked for the group.
OffsetFetch(p, topic, groupID, partitionId) ==
    \/ UserNotFound("offsetFetch", p)
    \/ /\ NoCall
       /\ p \in DOMAIN userInfoManager
       /\ LET user == userInfoManager[p]
              clientID == ClientId(p)
              topicName == PartitionedTopicOf(user.username, topic, partitionId)
              key == ReaderKey(topicName, clientID)
              messagePair == AcquireOffset(user.username, topic, groupID, partitionId)
              found == groupID \in groupManager
          IN /\ IF key \in DOMAIN readerManager
                THEN UNCHANGED <<readerManager, pulsarClientManage, closed>>
                ELSE /\ readerManager' =
                           MapPut(readerManager, key,
                                  [groupId |-> groupID, messageIds |-> <<>>,
                                   topic |-> topicName, clientId |-> clientID,
                                   start |-> messagePair.MessageId,
                                   next |-> messagePair.MessageId + 1])
                     /\ pulsarClientManage' = pulsarClientManage \cup {key}
                     /\ closed' = closed \ {<<"reader", key>>, <<"client", key>>}
             /\ IF found
                THEN /\ partitionedTopic' =
                           IF \E i \in DOMAIN partitionedTopic :
                                 partitionedTopic[i] = topicName
                           THEN partitionedTopic
                           ELSE Append(partitionedTopic, topicName)
                     /\ topicGroupManager' = MapPut(topicGroupManager, topicName, groupID)
                ELSE UNCHANGED <<partitionedTopic, topicGroupManager>>
             /\ answer' = [Answer("offsetFetch", p,
                                  IF found THEN "NONE" ELSE "UNKNOWN_SERVER_ERROR")
                             EXCEPT !.Offset = IF found THEN messagePair.Offset
                                              ELSE 0]
       /\ UNCHANGED <<coordinatorVars, resp, userInfoManager, memberManager,
                      producerManager, offsetManager, disconnecting>>

\* lines 212-324: the reader delivers its next n messages, and their pairs are
\* pushed to the back of messageIds
FetchPartition(p, topic, partitionId) ==
    \/ UserNotFound("fetch", p)
    \/ /\ NoCall
       /\ p \in DOMAIN userInfoManager
       /\ LET key == ReaderKey(PartitionedTopicOf(userInfoManager[p].username, topic,
                                                  partitionId), ClientId(p))
          IN /\ IF key \notin DOMAIN readerManager
                THEN UNCHANGED readerManager
                ELSE \E n \in 0..(MaxLog + 1 - readerManager[key].next) :
                        readerManager' =
                           [readerManager EXCEPT
                              ![key].messageIds =
                                 @ \o [i \in 1..n |->
                                         MessageIdPair(readerManager[key].next + i - 1)],
                              ![key].next = @ + n]
             /\ answer' = Answer("fetch", p, "NONE")
       /\ UNCHANGED <<coordinatorVars, resp, userInfoManager, memberManager,
                      producerManager, pulsarClientManage, topicGroupManager,
                      offsetManager, partitionedTopic, closed, disconnecting>>

\* a walk that commits the first pair that is not beyond the offset
CommitsFrontNotBeyond(front, offset, i, length) == front.Offset <= offset

\* line 591: the pair at the front is the one to commit
CommitsFront(front, offset, i, length) ==
    front.Offset = offset \/ (front.Offset < offset /\ i = length - 1)

\* lines 580-613: the walk over messageIds from its front, length being the
\* length the list had when the walk began: what is left of the list, and the
\* pair to commit if there is one
RECURSIVE CommitWalk(_, _, _, _)
CommitWalk(messageIds, offset, i, length) ==
    IF i >= length \/ messageIds = <<>>
    THEN [messageIds |-> messageIds, pair |-> NoPair, commit |-> FALSE]
    ELSE LET front == Head(messageIds)
         IN IF CommitsFront(front, offset, i, length)
            THEN [messageIds |-> messageIds, pair |-> front, commit |-> TRUE]
            ELSE IF front.Offset > offset
                 THEN [messageIds |-> messageIds, pair |-> NoPair, commit |-> FALSE]
                 ELSE CommitWalk(Tail(messageIds), offset, i + 1, length)

\* lines 545-618.  CommitOffset stores the pair under the reader's group, or
\* fails; the committed pair leaves the list only when it was stored.
OffsetCommitPartition(p, topic, partitionId, offset) ==
    \/ UserNotFound("offsetCommit", p)
    \/ /\ NoCall
       /\ p \in DOMAIN userInfoManager
       /\ LET user == userInfoManager[p]
              key == ReaderKey(PartitionedTopicOf(user.username, topic, partitionId),
                               ClientId(p))
              ans == [Answer("offsetCommit", p, "NONE") EXCEPT !.Offset = offset]
          IN IF key \notin DOMAIN readerManager
             THEN /\ answer' = [ans EXCEPT !.ErrorCode = "REBALANCE_IN_PROGRESS"]
                  /\ UNCHANGED <<readerManager, offsetManager>>
             ELSE LET readerMessages == readerManager[key]
                      walk == CommitWalk(readerMessages.messageIds, offset, 0,
                                         Len(readerMessages.messageIds))
                  IN IF ~walk.commit
                     THEN /\ readerManager' =
                                [readerManager EXCEPT ![key].messageIds = walk.messageIds]
                          /\ answer' = ans
                          /\ UNCHANGED offsetManager
                     ELSE \/ /\ offsetManager' =
                                   MapPut(offsetManager,
                                          OffsetKey(user.username, topic,
                                                    readerMessages.groupId, partitionId),
                                          walk.pair)
                             /\ readerManager' =
                                   [readerManager EXCEPT
                                      ![key].messageIds = Tail(walk.messageIds)]
                             /\ answer' = [ans EXCEPT !.bound = TRUE]
                          \/ /\ readerManager' =
                                   [readerManager EXCEPT
                                      ![key].messageIds = walk.messageIds]
                             /\ answer' = [ans EXCEPT
                                             !.ErrorCode = "UNKNOWN_SERVER_ERROR"]
                             /\ UNCHANGED offsetManager
       /\ UNCHANGED <<coordinatorVars, resp, userInfoManager, memberManager,
                      producerManager, pulsarClientManage, topicGroupManager,
                      partitionedTopic, closed, disconnecting>>

\* ------------------------------------------------------ the Broker's clients
\* the connections authenticate, produce, join and sync, and disconnect, one
\* request at a time
NextSession ==
    \E p \in Procs :
       \/ SaslAuth(p)
       \/ \E topic \in KafkaTopics : getProducer(p, topic)
       \/ GroupJoin(p)
       \/ GroupJoinReturn(p)
       \/ GroupSync(p)
       \/ GroupSyncReturn(p)
       \/ Disconnect(p)
       \/ DisconnectLeave(p)
       \/ GroupLeaveReturn(p)
       \/ Proceed(p)

SpecSession == InitObserved /\ [][NextSession]_vars

\* the two members of the Stable group have authenticated and are bound to
\* their addresses
StableBroker ==
    /\ StableGroup
    /\ NoTenantGroups
    /\ DefaultConfig
    /\ observe = TRUE
    /\ userInfoManager = [p \in Procs |-> [username |-> Username,
                                          clientId |-> ClientId(p)]]
    /\ memberManager = [p \in Procs |-> [memberId |-> StableClients[p].memberId,
                                        groupId |-> "g", clientId |-> ClientId(p)]]
    /\ producerManager = <<>>
    /\ readerManager = <<>>
    /\ pulsarClientManage = {}
    /\ topicGroupManager = <<>>
    /\ offsetManager = <<>>
    /\ partitionedTopic = <<>>
    /\ closed = {}
    /\ disconnecting = {}
    /\ answer = NoAnswer
    /\ NoProducing

\* they fetch their offsets, which opens their readers, send heartbeats, leave
\* and disconnect, one request at a time
NextReaders ==
    \E p \in Procs :
       \/ \E topic \in KafkaTopics, partitionId \in PartitionIds :
             OffsetFetch(p, topic, "g", partitionId)
       \/ HeartBeat(p)
       \/ HeartBeatReturn(p)
       \/ GroupLeave(p)
       \/ GroupLeaveReturn(p)
       \/ Disconnect(p)
       \/ DisconnectLeave(p)
       \/ Proceed(p)

SpecReaders == StableBroker /\ [][NextReaders]_vars

\* the leader of the Stable group fetches from one partition and commits; it
\* may leave, and disconnect and authenticate again
NextOffsets ==
    \E topic \in KafkaTopics :
       \/ SaslAuth("p1")
       \/ Disconnect("p1")
       \/ DisconnectLeave("p1")
       \/ OffsetFetch("p1", topic, "g", 1)
       \/ FetchPartition("p1", topic, 1)
       \/ \E offset \in 1..MaxLog + 1 : OffsetCommitPartition("p1", topic, 1, offset)
       \/ GroupLeave("p1")
       \/ GroupLeaveReturn("p1")
       \/ Proceed("p1")

SpecOffsets == StableBroker /\ [][NextOffsets]_vars

\* ---------------------------------------------------------------- Produce
\* the sizes of the batches and the topics of the Produce requests
MaxBatch == 2
ProduceTopics == {"s", "t"}

sessionVars == <<userInfoManager, memberManager, readerManager, pulsarClientManage,
                 topicGroupManager, offsetManager, partitionedTopic, disconnecting>>

\* part_000 lines 132-172, up to the receive of line 173.  Without a user the
\* log call of line 140 reads user.username of a nil *userInfo.  getProducer
\* (line 145, lines 326-350) hands out the producer of the address, created
\* for the topic of the call that finds none; SendAsync queues every record of
\* the batch on it, and the callbacks run later.
Produce(p, topic, n) ==
    /\ NoCall
    /\ producing = NoProduce
    /\ \A i \in DOMAIN callbacks : callbacks[i].at \in {"done", "signal"}
    /\ IF p \notin DOMAIN userInfoManager
       THEN /\ Panic
            /\ UNCHANGED <<genCap, observe, groupManager, groupVars, lockVars,
                           nextUuid, loc, client>>
       ELSE LET created == p \notin DOMAIN producerManager
                producer == IF created
                            THEN PulsarTopic(userInfoManager[p].username, topic)
                            ELSE producerManager[p]
            IN /\ producerManager' = MapPut(producerManager, p, producer)
               /\ closed' = IF created THEN closed \ {<<"producer", p>>} ELSE closed
               /\ producing' = [addr |-> p, kafkaTopic |-> topic,
                                pulsarTopic |-> producer]
               /\ batch' = n
               /\ count' = 0
               /\ callbacks' = [i \in 1..n |-> [at |-> "queued", err |-> FALSE]]
               /\ UNCHANGED <<handlerVars, tenantVars, resp, sessionVars, answer>>

\* line 157: the callback of a record runs, with the error of its publish or
\* none, and adds one to count
CallbackAdd(i) ==
    /\ ~panicked
    /\ i \in DOMAIN callbacks
    /\ callbacks[i].at = "queued"
    /\ \E err \in BOOLEAN :
          callbacks' = [callbacks EXCEPT ![i] = [at |-> "added", err |-> err]]
    /\ count' = count + 1
    /\ UNCHANGED <<handlerVars, tenantVars, resp, sessionVars, answer,
                   producerManager, closed, producing, batch>>

\* lines 158-161: the error is logged, then count is read and compared with
\* len(batch); the callback that finds them equal goes on to the send
CallbackCompare(i) ==
    /\ ~panicked
    /\ i \in DOMAIN callbacks
    /\ callbacks[i].at = "added"
    /\ callbacks' = [callbacks EXCEPT
                       ![i].at = IF count = batch THEN "signal" ELSE "done"]
    /\ UNCHANGED <<handlerVars, tenantVars, resp, sessionVars, answer,
                   producerManager, closed, producing, batch, count>>

\* lines 163 and 173-180: producerChan has no buffer, so that the send of a
\* callback and the receive of Produce happen together; Produce returns
ProduceReturn ==
    /\ ~panicked
    /\ producing # NoProduce
    /\ \E i \in DOMAIN callbacks :
          /\ callbacks[i].at = "signal"
          /\ callbacks' = [callbacks EXCEPT ![i].at = "done"]
    /\ producing' = NoProduce
    /\ answer' = Answer("produce", producing.addr, "NONE")
    /\ UNCHANGED <<handlerVars, tenantVars, resp, sessionVars, producerManager,
                   closed, batch, count>>

\* the connections authenticate and produce, one Produce at a time
NextProduce ==
    \/ \E p \in Procs : SaslAuth(p)
    \/ \E p \in Procs, topic \in ProduceTopics, n \in 0..MaxBatch :
          Produce(p, topic, n)
    \/ \E i \in 1..MaxBatch : CallbackAdd(i) \/ CallbackCompare(i)
    \/ ProduceReturn

SpecProduce == Init /\ [][NextProduce]_vars

\* the client library runs every callback that is due, and a Produce whose
\* receive has a sender goes on
ProduceFairness ==
    /\ \A i \in 1..MaxBatch :
          WF_vars(CallbackAdd(i)) /\ WF_vars(CallbackCompare(i))
    /\ WF_vars(ProduceReturn)

SpecProduceLive == SpecProduce /\ ProduceFairness

\* ------------------------------------------------- the registry's keys
\* the tenants and the group ids of their calls, and the number of calls the
\* model counts for a group
Usernames == {"a", "ab"}
TenantGroupIds == {"bc", "c"}
MaxWrites == 2

\* lines 57, 238, 325, 354, 397: g.groupManager[username+groupId]
GroupKey(username, groupId) == username \o groupId

Access(op, username, groupId) ==
    [op |-> op, username |-> username, groupId |-> groupId,
     found |-> GroupKey(username, groupId) \in DOMAIN tenantGroups,
     owner |-> IF GroupKey(username, groupId) \in DOMAIN tenantGroups
               THEN <<tenantGroups[GroupKey(username, groupId)].username,
                      tenantGroups[GroupKey(username, groupId)].groupId>>
               ELSE <<"", "">>]

\* lines 56-70 of HandleJoinGroup: the group under the key is looked up, and
\* created with the group id of the call when there is none; the call then
\* goes on to change the group it has got
JoinLookup(username, groupId) ==
    /\ GroupKey(username, groupId) \in DOMAIN tenantGroups =>
          tenantGroups[GroupKey(username, groupId)].writes < MaxWrites
    /\ tenantGroups' =
          IF GroupKey(username, groupId) \in DOMAIN tenantGroups
          THEN [tenantGroups EXCEPT ![GroupKey(username, groupId)].writes = @ + 1]
          ELSE MapPut(tenantGroups, GroupKey(username, groupId),
                      [username |-> username, groupId |-> groupId, writes |-> 0])
    /\ access' = Access("join", username, groupId)
    /\ UNCHANGED <<handlerVars, resp, brokerVars, produceVars>>

\* lines 324-342 of HandleLeaveGroup: the group under the key has its
\* generation raised
LeaveLookup(username, groupId) ==
    /\ GroupKey(username, groupId) \in DOMAIN tenantGroups =>
          tenantGroups[GroupKey(username, groupId)].writes < MaxWrites
    /\ tenantGroups' =
          IF GroupKey(username, groupId) \in DOMAIN tenantGroups
          THEN [tenantGroups EXCEPT ![GroupKey(username, groupId)].writes = @ + 1]
          ELSE tenantGroups
    /\ access' = Access("leave", username, groupId)
    /\ UNCHANGED <<handlerVars, resp, brokerVars, produceVars>>

\* lines 237-245 of HandleSyncGroup, 396-405 of HandleHeartBeat and 352-360 of
\* GetGroup: the group under the key is read
ReadLookup(op, username, groupId) ==
    /\ access' = Access(op, username, groupId)
    /\ UNCHANGED <<tenantGroups, handlerVars, resp, brokerVars, produceVars>>

NextTenants ==
    \E username \in Usernames, groupId \in TenantGroupIds :
       \/ JoinLookup(username, groupId)
       \/ LeaveLookup(username, groupId)
       \/ \E op \in {"sync", "heartbeat", "get"} : ReadLookup(op, username, groupId)

SpecTenants == Init /\ [][NextTenants]_vars

\* ------------------------------------------------------------ properties
\* every connection is between two calls
Quiet == \A p \in Procs : pc[p] = "idle"

\* the handler of p is inside HandleLeaveGroup
Leaving(p) == pc[p] \in {"L_leader", "L_del", "L_bump", "L_set"}

OutOfRange(timeoutMs) ==
    timeoutMs < GroupMinSessionTimeoutMs \/ timeoutMs > GroupMaxSessionTimeoutMs

\* C1: in every reachable state of a group whose status is Stable, every member
\* of the member map has syncGenerationId = joinGenerationId = the group's
\* generationId
C1_StableMembersSynced ==
    groupStatus = Stable =>
        \A k \in DOMAIN members :
            /\ heap[members[k]].syncGenerationId = heap[members[k]].joinGenerationId
            /\ heap[members[k]].joinGenerationId = generationId

\* C2: in every reachable state, a group whose member map is not empty has a
\* status other than Empty and Dead
C2_MembersImplyActive ==
    members # <<>> => groupStatus \notin {Empty, Dead}

\* C3: the generationId of a group never decreases, whatever step of whatever
\* call is taken
C3_GenerationMonotone == [][generationId' >= generationId]_vars

\* a LeaveGroup has returned after generationId was raised for the second time
C3_Witness ==
    /\ resp.op = "leave"
    /\ resp.ErrorCode = "NONE"
    /\ generationId >= 2

\* C4: a JoinGroup with an empty member id that arrives on a fresh group within
\* the initial join delay of the first call gets a member id of its own and
\* returns generationId 1, the generation of the first call
C4_Coalescing ==
    \A p \in Procs :
        ( /\ resp.to = p
          /\ resp.op = "join"
          /\ resp.ErrorCode = "NONE"
          /\ resp.request.memberId = EmptyMemberId
          /\ resp.arrival \in {"first", "delay"} )
        => /\ resp.GenerationId = 1
           /\ \A q \in Procs \ {p} : client[q].memberId # resp.MemberId

\* C5: no two successful JoinGroup responses with the same GenerationId carry
\* different LeaderIds (of every client its last successful response is kept)
C5_OneLeaderPerGeneration ==
    \A p \in Procs, q \in Procs :
        ( /\ client[p].memberId # EmptyMemberId
          /\ client[q].memberId # EmptyMemberId
          /\ client[p].generationId = client[q].generationId )
        => client[p].leaderId = client[q].leaderId

\* C6: a SyncGroup of a member that is not the leader, in the generation in
\* which the leader's JoinGroup response listed it, returns with NONE only the
\* assignment the leader supplies for it in that generation; the leader is still
\* the leader of the group and is not leaving
C6_AssignmentRoundTrip ==
    \A p \in Procs :
        ( /\ resp.to = p
          /\ resp.op = "sync"
          /\ resp.ErrorCode = "NONE"
          /\ resp.request.memberId = client[p].memberId
          /\ client[p].memberId # client[p].leaderId
          /\ client[p].generationId = generationId
          /\ leader = client[p].leaderId
          /\ leader \in DOMAIN members
          /\ \E q \in Procs :
                /\ client[q].memberId = leader
                /\ client[q].generationId = generationId
                /\ client[p].memberId \in client[q].members
                /\ ~Leaving(q) )
        => resp.MemberAssignment =
              Assignment(client[p].generationId, client[p].memberId)

\* C7: when a successful LeaveGroup has returned, no call is in progress and
\* the member map is empty, the status is Empty and the leader is the empty
\* string
C7_EmptyAfterLeave ==
    ( /\ resp.op = "leave"
      /\ resp.ErrorCode = "NONE"
      /\ Quiet
      /\ members = <<>> )
    => /\ groupStatus = Empty
       /\ leader = EmptyMemberId

\* C8: a Heartbeat returns NONE only for a group that is Stable: the group was
\* Stable when the call was made, or one of the call's reads of the status
\* found it Stable
C8_HeartbeatByStatus ==
    ( /\ resp.op = "heartbeat"
      /\ resp.ErrorCode = "NONE" )
    => Stable \in resp.request.seen \cup {resp.request.status}

\* the step is a call of JoinGroup by p with a session timeout out of range
JoinCalledOutOfRange(p) ==
    /\ pc[p] = "idle"
    /\ resp = NoResp
    /\ \/ /\ resp'.to = p
          /\ resp'.op = "join"
          /\ OutOfRange(resp'.request.timeoutMs)
       \/ /\ pc'[p] # "idle"
          /\ loc'[p].op = "join"
          /\ OutOfRange(loc'[p].request.timeoutMs)

\* C9 as it is stated: a JoinGroup with a session timeout out of range returns
\* INVALID_SESSION_TIMEOUT and changes neither the registry nor a group
C9_TimeoutRejected ==
    [][\A p \in Procs :
          JoinCalledOutOfRange(p) =>
              /\ resp'.to = p
              /\ resp'.op = "join"
              /\ resp'.ErrorCode = "INVALID_SESSION_TIMEOUT"
              /\ groupManager' = groupManager
              /\ groupVars' = groupVars]_vars

\* C9: a JoinGroup with a session timeout out of range returns
\* INVALID_SESSION_TIMEOUT, or INVALID_GROUP_ID when its group id is empty, and
\* changes neither the registry nor a group
C9_TimeoutRejectedUnchanged ==
    [][\A p \in Procs :
          JoinCalledOutOfRange(p) =>
              /\ resp'.to = p
              /\ resp'.op = "join"
              /\ resp'.ErrorCode = IF resp'.request.groupId = ""
                                   THEN "INVALID_GROUP_ID"
                                   ELSE "INVALID_SESSION_TIMEOUT"
              /\ groupManager' = groupManager
              /\ groupVars' = groupVars]_vars

\* a JoinGroup was turned away for its session timeout by a Stable group that
\* has members
C9_Witness ==
    /\ resp.op = "join"
    /\ resp.ErrorCode = "INVALID_SESSION_TIMEOUT"
    /\ resp.request.groupId \in groupManager
    /\ groupStatus = Stable
    /\ members # <<>>

JoinSucceeded == resp.op = "join" /\ resp.ErrorCode = "NONE"

MemberIds(list) == { m.MemberId : m \in list }

\* C11: a successful JoinGroup response whose LeaderId is not its MemberId has
\* an empty member list; one whose LeaderId is its MemberId lists every member
\* that has joined the generation it names, with its metadata, and so every
\* member that holds a successful response of that generation
C11_MemberListOnlyToLeader ==
    /\ (JoinSucceeded /\ resp.LeaderId # resp.MemberId) => resp.Members = {}
    /\ (JoinSucceeded /\ resp.LeaderId = resp.MemberId) =>
          /\ \A k \in DOMAIN members :
                heap[members[k]].joinGenerationId = resp.GenerationId =>
                    [MemberId |-> k, Metadata |-> heap[members[k]].metadata]
                        \in resp.Members
          /\ \A q \in Procs :
                ( /\ client[q].memberId \in DOMAIN members
                  /\ client[q].generationId = resp.GenerationId )
                => client[q].memberId \in MemberIds(resp.Members)

\* the response is that of a JoinGroup with valid parameters, called by the
\* leader and only member of a Stable group
RejoinReturned ==
    /\ resp.op = "join"
    /\ resp.request.rejoin
    /\ joinGroupParamsCheck(resp.request.groupId, resp.request.timeoutMs) = "NONE"

\* C12: when the leader and only member of a Stable group calls JoinGroup again
\* with its member id, the call succeeds in the next generation, leaves the
\* group CompletingRebalance, and its response names the first protocol the
\* call offers
C12_RejoinProtocolChange ==
    RejoinReturned =>
        /\ resp.ErrorCode = "NONE"
        /\ resp.GenerationId = resp.request.generationId + 1
        /\ generationId = resp.request.generationId + 1
        /\ groupStatus = CompletingRebalance
        /\ resp.ProtocolName = resp.request.protocols[1].ProtocolName

\* the step is a call of LeaveGroup by p that is turned away
LeaveTurnedAway(p) ==
    /\ pc[p] = "idle"
    /\ resp = NoResp
    /\ resp'.to = p
    /\ resp'.op = "leave"
    /\ resp'.ErrorCode # "NONE"

\* C13: a LeaveGroup on an existing group, with no other call in progress,
\* returns NONE and the member ids it listed; the member map is then the one it
\* found less the listed members, the leader is cleared if it was listed and
\* kept otherwise, generationId is one more than it was, and the status is
\* Empty when no member remains and PreparingRebalance otherwise.  A LeaveGroup
\* with an empty group id or for a group that does not exist returns
\* INVALID_GROUP_ID and changes nothing.
C13_LeaveGroup ==
    /\ []( (resp.op = "leave" /\ resp.request.groupId \in groupManager) =>
              /\ resp.ErrorCode = "NONE"
              /\ resp.Members = resp.request.list
              /\ DOMAIN members = resp.request.members \ resp.request.list
              /\ leader = IF resp.request.leader \in resp.request.list
                          THEN EmptyMemberId ELSE resp.request.leader
              /\ generationId = resp.request.generationId + 1
              /\ groupStatus = IF members = <<>> THEN Empty
                               ELSE PreparingRebalance )
    /\ []( (resp.op = "leave" /\ resp.request.groupId \notin groupManager) =>
              resp.ErrorCode = "INVALID_GROUP_ID" )
    /\ [][\A p \in Procs :
             LeaveTurnedAway(p) =>
                 /\ resp'.ErrorCode = "INVALID_GROUP_ID"
                 /\ resp'.request.groupId \notin groupManager
                 /\ groupManager' = groupManager
                 /\ groupVars' = groupVars]_vars

\* the leader has left a group of two: one member remains, without a leader,
\* in a group that is PreparingRebalance
C13_Witness ==
    /\ resp.op = "leave"
    /\ resp.ErrorCode = "NONE"
    /\ resp.request.leader \in resp.request.list
    /\ Cardinality(resp.request.members) = 2
    /\ Cardinality(DOMAIN members) = 1
    /\ leader = EmptyMemberId
    /\ groupStatus = PreparingRebalance

\* some member of the group has not synced in the generation it joined
SyncOutstanding ==
    \E k \in DOMAIN members :
        heap[members[k]].syncGenerationId # heap[members[k]].joinGenerationId

\* C14: a SyncGroup that waits at the sync barrier of a CompletingRebalance
\* group and gives up while some member has not synced has failed, and a
\* SyncGroup whose wait failed returns REBALANCE_IN_PROGRESS with the
\* assignment that is stored for its member when it returns
C14_SyncTimeout ==
    [][\A p \in Procs :
          /\ (pc[p] = "S_wait" /\ pc'[p] # "S_wait" /\ SyncOutstanding)
                => loc'[p].err
          /\ (pc[p] = "S_read" /\ loc[p].err /\ pc'[p] # "S_read") =>
                /\ resp'.to = p
                /\ resp'.op = "sync"
                /\ resp'.ErrorCode = "REBALANCE_IN_PROGRESS"
                /\ resp'.MemberAssignment = heap[loc[p].cur].assignment]_vars

\* a member's SyncGroup found the group CompletingRebalance and returned
\* REBALANCE_IN_PROGRESS with the assignment stored for it, while another
\* member has not synced
C14_Witness ==
    /\ resp.op = "sync"
    /\ resp.ErrorCode = "REBALANCE_IN_PROGRESS"
    /\ resp.request.status = CompletingRebalance
    /\ resp.MemberAssignment # NoAssignment
    /\ resp.request.memberId \in DOMAIN members
    /\ resp.MemberAssignment = heap[members[resp.request.memberId]].assignment
    /\ SyncOutstanding

\* C15: whenever a step makes the group Stable, every member of the group has
\* syncGenerationId = joinGenerationId after it; a leader whose wait at the
\* sync barrier failed does not make the group Stable
C15_StableOnlyWhenSynced ==
    [][(groupStatus # Stable /\ groupStatus' = Stable) =>
          /\ \A k \in DOMAIN members' :
                heap'[members'[k]].syncGenerationId =
                    heap'[members'[k]].joinGenerationId
          /\ \A p \in Procs : pc[p] = "S_stable1" => ~loc[p].err]_vars

\* C16: while the group is CompletingRebalance, every member has
\* joinGenerationId equal to the group's generationId and at least one member
\* has syncGenerationId below its joinGenerationId
C16_CompletingRebalance ==
    (groupManager # {} /\ groupStatus = CompletingRebalance) =>
        /\ \A k \in DOMAIN members :
              heap[members[k]].joinGenerationId = generationId
        /\ \E k \in DOMAIN members :
              heap[members[k]].syncGenerationId <
                  heap[members[k]].joinGenerationId

\* C17: a group with an empty member map has status Empty or Dead in every
\* state, and whenever a step makes the status Empty the leader is the empty
\* member id after it
C17_EmptyGroup ==
    /\ []((groupManager # {} /\ members = <<>>) =>
             groupStatus \in {Empty, Dead})
    /\ [][(groupStatus # Empty /\ groupStatus' = Empty) =>
             leader' = EmptyMemberId]_vars

\* C18: the leader is stable: a step that sets the leader while none is set
\* sets it to a member of the group, and once the leader is a member it
\* changes only to the empty member id, in the step of a LeaveGroup that is
\* removing that member
C18_LeaderStable ==
    [][/\ (leader = EmptyMemberId /\ leader' # EmptyMemberId) =>
             leader' \in DOMAIN members'
       /\ (leader # EmptyMemberId /\ leader' # leader) =>
             /\ leader' = EmptyMemberId
             /\ \E p \in Procs : /\ pc[p] = "L_leader"
                                 /\ Head(loc[p].leaving) = leader]_vars

\* C19: supportedProtocol changes only in the step of an admission that
\* votes, to the first protocol name that admission offered, and only while
\* the group's status is Empty; in every step taken while the status is not
\* Empty it is unchanged
C19_SupportedProtocolFixed ==
    [][supportedProtocol' # supportedProtocol =>
          /\ groupStatus = Empty
          /\ \E p \in Procs :
                /\ pc[p] = "AM_vote"
                /\ supportedProtocol' = loc[p].protocols[1].ProtocolName]_vars

\* C20: when a JoinGroup call whose memberId was not a member of the group
\* when it was called fails at the join barrier, the member it was admitted
\* as is not in the member map when the call returns
C20_FailedJoinRemovesMember ==
    [][\A p \in Procs :
          (/\ pc[p] = "AJ_fail"
           /\ pc'[p] = "idle"
           /\ ~loc[p].request.member) =>
              loc[p].memberId \notin DOMAIN members']_vars

\* C21: no JoinGroup and no SyncGroup call is answered UNKNOWN_SERVER_ERROR,
\* whatever the other connection's calls do to the group's status meanwhile
C21_NoTerminalError ==
    resp.op \in {"join", "sync"} => resp.ErrorCode # "UNKNOWN_SERVER_ERROR"

\* a call is held back because the generation has reached the bound of the
\* model
AtGenCap ==
    \E q \in Procs : pc[q] \in {"DR_lock", "L_bump"} /\ generationId >= genCap

\* C22: every call that has started returns (unless the model's bound on the
\* generation holds a rebalance back): no wait lasts forever and no
\* connection stays blocked on a lock
C22_EveryCallReturns ==
    \A p \in Procs : (pc[p] # "idle") ~> (pc[p] = "idle" \/ AtGenCap)

\* C23: a SyncGroup call is answered by what it finds, in the order of the
\* code's checks: INVALID_GROUP_ID for an empty group id, MEMBER_ID_REQUIRED
\* for an empty member id, INVALID_GROUP_ID for an unknown group,
\* UNKNOWN_MEMBER_ID for a member id that is not in the group or a group that
\* is Empty or Dead, REBALANCE_IN_PROGRESS for a group that is
\* PreparingRebalance, and NONE with the member's stored assignment for a
\* group that is Stable; in none of these cases does a step of the call
\* change the registry or the group
SyncAnswer(r) ==
    IF r.groupId = "" THEN "INVALID_GROUP_ID"
    ELSE IF r.memberId = EmptyMemberId THEN "MEMBER_ID_REQUIRED"
    ELSE IF r.status = "" THEN "INVALID_GROUP_ID"
    ELSE IF ~r.member \/ r.status \in {Empty, Dead} THEN "UNKNOWN_MEMBER_ID"
    ELSE IF r.status = PreparingRebalance THEN "REBALANCE_IN_PROGRESS"
    ELSE IF r.status = Stable THEN "NONE"
    ELSE "barrier"

SyncStepNoBarrier(p) ==
    /\ resp = NoResp
    /\ \/ pc[p] = "idle" /\ resp'.to = p /\ resp'.op = "sync"
       \/ pc[p] = "idle" /\ pc'[p] = "S_st1"
       \/ pc[p] \in {"S_st1", "S_st2", "S_st3", "S_st4"} /\ pc'[p] # "S_store"

C23_SyncGroupAnswers ==
    /\ []((resp.op = "sync" /\ SyncAnswer(resp.request) # "barrier") =>
             /\ resp.ErrorCode = SyncAnswer(resp.request)
             /\ resp.MemberAssignment =
                   IF resp.ErrorCode = "NONE"
                   THEN heap[members[resp.request.memberId]].assignment
                   ELSE NoAssignment)
    /\ [][\A p \in Procs :
             SyncStepNoBarrier(p) =>
                 /\ groupManager' = groupManager
                 /\ groupVars' = groupVars]_vars

\* a SyncGroup of a member of a Stable group was answered the assignment the
\* leader stored for it
C23_Witness ==
    /\ resp.op = "sync"
    /\ resp.request.member
    /\ resp.request.status = Stable
    /\ resp.ErrorCode = "NONE"
    /\ resp.MemberAssignment # NoAssignment
    /\ resp.MemberAssignment = heap[members[resp.request.memberId]].assignment

\* what joinGroupProtocolCheck is to answer a request that finds the group so
ProtocolRejected(r) ==
    \/ r.status # Empty /\ r.mismatch
    \/ r.status = Empty /\ (r.protocolType = "" \/ Len(r.protocols) = 0)

ProtocolCheckStep(p) ==
    \/ pc[p] = "idle" /\ pc'[p] \in {"J_proto1", "J_proto2"}
    \/ pc[p] \in {"J_proto1", "J_proto2"}

\* C24: a JoinGroup that passes the parameter check and finds the group not
\* Empty with another protocol type than its own, or Empty while its own
\* protocol type or protocol list is empty, is answered
\* INCONSISTENT_GROUP_PROTOCOL; the steps of the call up to that answer add no
\* member and leave status, leader and generationId as they are
C24_InconsistentProtocol ==
    /\ []((/\ resp.op = "join"
           /\ joinGroupParamsCheck(resp.request.groupId,
                                   resp.request.timeoutMs) = "NONE"
           /\ ProtocolRejected(resp.request)) =>
              resp.ErrorCode = "INCONSISTENT_GROUP_PROTOCOL")
    /\ [][\A p \in Procs :
             ProtocolCheckStep(p) =>
                 /\ members' = members
                 /\ groupStatus' = groupStatus
                 /\ leader' = leader
                 /\ generationId' = generationId]_vars

\* a member of a group that is not Empty rejoined with another protocol type
\* and was turned away
C24_Witness ==
    /\ resp.op = "join"
    /\ resp.ErrorCode = "INCONSISTENT_GROUP_PROTOCOL"
    /\ resp.request.status # Empty
    /\ resp.request.mismatch
    /\ resp.request.member
    /\ members # <<>>

\* the step is the return of a JoinGroup whose wait failed: the wait at the
\* join barrier, or the wait of a new member for the group to become Stable
JoinWaitFailed(p) ==
    /\ resp = NoResp
    /\ pc[p] \in {"AJ_fail", "AR_wait"}
    /\ pc'[p] = "idle"

\* C25 as it is stated: a JoinGroup whose wait failed is answered
\* UNKNOWN_SERVER_ERROR or REBALANCE_IN_PROGRESS
C25_JoinTimeoutCode ==
    [][\A p \in Procs :
          JoinWaitFailed(p) =>
              /\ resp'.to = p
              /\ resp'.op = "join"
              /\ resp'.ErrorCode \in {"UNKNOWN_SERVER_ERROR",
                                      "REBALANCE_IN_PROGRESS"}]_vars

\* C25: a JoinGroup whose wait failed is answered COORDINATOR_LOAD_IN_PROGRESS
\* with the member id of the call
C25_JoinTimeoutLoadInProgress ==
    [][\A p \in Procs :
          JoinWaitFailed(p) =>
              /\ resp'.to = p
              /\ resp'.op = "join"
              /\ resp'.ErrorCode = "COORDINATOR_LOAD_IN_PROGRESS"
              /\ resp'.MemberId = loc[p].memberId]_vars

\* a JoinGroup came back from the join barrier without the other member having
\* joined the generation
C25_Witness ==
    /\ resp.op = "join"
    /\ resp.ErrorCode = "COORDINATOR_LOAD_IN_PROGRESS"
    /\ resp.MemberId # EmptyMemberId
    /\ \E k \in DOMAIN members :
          heap[members[k]].joinGenerationId # generationId

\* C26: an OffsetCommit for an offset that the reader has delivered, answered
\* NONE, is followed by an OffsetFetch of the same topic, partition and group
\* that returns this offset
DeliveredOffsets ==
    UNION { { convOffset(m) : m \in (readerManager[k].start + 1)..(readerManager[k].next - 1) }
            : k \in DOMAIN readerManager }

C26_OffsetRoundTrip ==
    [][(/\ answer.op = "offsetCommit"
        /\ answer.ErrorCode = "NONE"
        /\ answer.Offset \in DeliveredOffsets
        /\ answer'.op = "offsetFetch"
        /\ answer'.ErrorCode = "NONE")
       => answer'.Offset = answer.Offset]_vars

\* C27: after Disconnect(addr) has returned, userInfoManager, memberManager and
\* producerManager hold no entry for addr, and the member that was bound to
\* addr is in its group no more
C27_DisconnectClears ==
    answer.op = "disconnect" =>
        /\ answer.addr \notin DOMAIN userInfoManager
        /\ answer.addr \notin DOMAIN producerManager
        /\ answer.addr \notin DOMAIN memberManager
        /\ answer.bound /\ answer.addr \in DOMAIN memberManager =>
              memberManager[answer.addr].memberId \notin DOMAIN members

\* C28: a JoinGroup answered with an error code leaves memberManager as it
\* was, and the LeaveGroup of a Disconnect changes neither the generation nor
\* the status of the group when the member bound to the address is one that
\* never joined (the empty member id of a refused first JoinGroup)
JoinRefused(p) ==
    /\ resp.to = p
    /\ resp.op = "join"
    /\ resp.ErrorCode # "NONE"
    /\ resp' = NoResp

C28_BindingOnlyOnSuccess ==
    [][\A p \in Procs :
          /\ JoinRefused(p) => memberManager' = memberManager
          /\ (p \in disconnecting /\ memberManager[p].memberId = EmptyMemberId)
                => generationId' = generationId /\ groupStatus' = groupStatus]_vars

\* C29: after a LeaveGroup, made by the client or by Disconnect, and after a
\* Heartbeat answered REBALANCE_IN_PROGRESS, for a group the registry holds,
\* readerManager and pulsarClientManage have no entry for a topic of the
\* group's partitionedTopic and the client id of the caller, what was removed
\* was closed, and the readers and clients of other client ids are as before
ReadersCleaned(p) ==
    /\ resp.to = p
    /\ resp' = NoResp
    /\ resp.request.groupId \in groupManager
    /\ \/ resp.op = "leave"
       \/ resp.op = "heartbeat" /\ resp.ErrorCode = "REBALANCE_IN_PROGRESS"

C30_OneGroupPerPair ==
    access.found => access.owner = <<access.username, access.groupId>>

\* C31: a JoinGroup answered NONE carries the generation its barrier passed
\* at: when the barrier check passes every member of the member map has
\* joinGenerationId = generationId, and generationId stays what it was until the
\* response has been made; an iteration of the wait writes the joinGenerationId
\* of the caller only
BarrierPassed(p) ==
    \/ pc[p] \in {"AJ_set", "J_ret"}
    \/ pc[p] \in {"GL_read", "GL_set", "GL_list"} /\ loc[p].branch # "Completing"

C31_JoinBarrier ==
    [][\A p \in Procs :
          /\ (pc[p] \in {"AJ_check", "AJ_blocked"} /\ pc'[p] = "AJ_set") =>
                \A k \in DOMAIN members :
                   heap[members[k]].joinGenerationId = generationId
          /\ BarrierPassed(p) => generationId' = generationId
          /\ (pc[p] = "AJ_write" /\ pc'[p] = "AJ_check") =>
                \A a \in DOMAIN heap \ {loc[p].cur} :
                   a \in DOMAIN heap' /\ heap'[a] = heap[a]]_vars

\* C32: of the callers that are in doRebalance at overlapping times one drives:
\* when the driver bumps generationId and unlocks while another caller waits at
\* the head of doRebalance, that caller finds canRebalance false, so that it
\* waits for CompletingRebalance and bumps nothing
C32_OneDriver ==
    [][\A p, q \in Procs :
          (p # q /\ pc[p] = "DR_bump" /\ pc[q] = "DR_lock"
             /\ generationId' # generationId) => ~canRebalance']_vars

\* C33: an OffsetCommit for the offset T walks the reader's list from its head: the
\* pairs below T that are not the last one are removed, the pair at T (or the
\* last pair, when it lies below T) is stored by CommitOffset and removed, and
\* the walk stops at the first pair beyond T.  No pair beyond T is removed,
\* at most one pair is stored, and when CommitOffset fails the answer is
\* UNKNOWN_SERVER_ERROR and the pair stays at the head of the list.
StopIndex(list, T) ==
    IF \E i \in 1..Len(list) : list[i].Offset >= T
    THEN CHOOSE i \in 1..Len(list) :
            /\ list[i].Offset >= T
            /\ \A j \in 1..(i - 1) : list[j].Offset < T
    ELSE Len(list) + 1

CommittedIndex(list, T) ==
    LET stop == StopIndex(list, T)
    IN IF list = <<>> THEN 0
       ELSE IF stop > Len(list) THEN Len(list)
       ELSE IF list[stop].Offset = T THEN stop
       ELSE 0

CommitAsSpecified(key, T) ==
    LET list == readerManager[key].messageIds
        rest == readerManager'[key].messageIds
        stop == StopIndex(list, T)
        at == CommittedIndex(list, T)
        stored == { k \in DOMAIN offsetManager' :
                      k \notin DOMAIN offsetManager
                         \/ offsetManager'[k] # offsetManager[k] }
    IN /\ key \in DOMAIN readerManager'
       /\ \A k \in DOMAIN readerManager \ {key} :
             k \in DOMAIN readerManager' /\ readerManager'[k] = readerManager[k]
       /\ DOMAIN offsetManager \subseteq DOMAIN offsetManager'
       /\ Cardinality(stored) <= 1
       /\ IF at = 0
          THEN /\ rest = SubSeq(list, stop, Len(list))
               /\ offsetManager' = offsetManager
               /\ answer'.ErrorCode = "NONE"
          ELSE \/ /\ answer'.ErrorCode = "NONE"
                  /\ rest = SubSeq(list, at + 1, Len(list))
                  /\ \E k \in DOMAIN offsetManager' : offsetManager'[k] = list[at]
                  /\ \A k \in stored : offsetManager'[k] = list[at]
               \/ /\ answer'.ErrorCode = "UNKNOWN_SERVER_ERROR"
                  /\ rest = SubSeq(list, at, Len(list))
                  /\ offsetManager' = offsetManager

C33_CommitWalksFromHead ==
    [][(/\ answer'.op = "offsetCommit"
        /\ <<answer, readerManager, offsetManager>>' #
              <<answer, readerManager, offsetManager>>
        /\ answer'.addr \in DOMAIN userInfoManager
        /\ answer'.ErrorCode # "REBALANCE_IN_PROGRESS")
       => \E topic \in KafkaTopics, partitionId \in PartitionIds :
             LET key == ReaderKey(PartitionedTopicOf(
                                    userInfoManager[answer'.addr].username,
                                    topic, partitionId), ClientId(answer'.addr))
             IN key \in DOMAIN readerManager
                   /\ CommitAsSpecified(key, answer'.Offset)]_vars

\* an OffsetCommit has removed pairs below its offset and stored the pair at it
C33_Witness ==
    /\ answer.op = "offsetCommit" /\ answer.ErrorCode = "NONE" /\ answer.bound
    /\ answer.Offset = 2
    /\ \E k \in DOMAIN offsetManager : offsetManager[k].Offset = 2
    /\ \E k \in DOMAIN readerManager :
          /\ readerManager[k].messageIds # <<>>
          /\ Head(readerManager[k].messageIds).Offset = 3

\* C34: every Produce call returns, whatever the size of its batch and the order
\* its callbacks run in
C34_ProduceReturns ==
    (producing # NoProduce) ~> (producing = NoProduce)

C35_NoPhantomLeader ==
    leader = EmptyMemberId \/ leader \in DOMAIN members

\* C38: the SyncGroup of the leader whose assignments name a member id that is
\* not in the member map goes on to its answer: the step that stores the
\* assignments does not end the process, adds no member, and stores the
\* assignments of the members it names that are in the map
C38_SyncUnknownAssignee ==
    [][\A p \in Procs :
          (/\ pc[p] = "S_store"
           /\ pc'[p] # "S_store"
           /\ leader = loc[p].memberId
           /\ \E k \in DOMAIN loc[p].groupAssignments : k \notin DOMAIN members)
          => /\ ~panicked'
             /\ DOMAIN members' = DOMAIN members
             /\ \A k \in DOMAIN loc[p].groupAssignments \cap DOMAIN members :
                   heap'[members[k]].assignment = loc[p].groupAssignments[k]]_vars

\* C39: every member of the group has the protocol type of the group, also in a
\* group that was Empty and has a first member again
C39_MembersHaveGroupProtocolType ==
    \A k \in DOMAIN members : heap[members[k]].protocolType = protocolType

\* C37: with a limit on the members of a group configured, the group never
\* has more members than the limit
C37_MembersWithinLimit ==
    MaxConsumersPerGroup > 0 => len(members) <= MaxConsumersPerGroup

\* C36: with clients that follow the protocol and waits that do not time out,
\* a group that is rebalancing and has members becomes Stable (or loses its
\* members, or the model's bound on the generation holds the rebalance back)
Rebalancing ==
    groupStatus \in {PreparingRebalance, CompletingRebalance} /\ len(members) > 0

C36_ProgressToStable ==
    Rebalancing ~> (groupStatus = Stable \/ len(members) = 0 \/ AtGenCap)
====
